---- MODULE Spec2Model ----
(***************************************************************************)
(* Model of the img_catalog_tui catalog core: the filename-tag parser, the *)
(* folder scanner (ImagesetFolder), the Imageset entity with its validated *)
(* setters and archive side effect, the batch updater and the part of the  *)
(* TOML <-> database synchronisation that carries status/edits/needs.      *)
(*                                                                         *)
(* File and folder names are sequences of symbols (each symbol plays the   *)
(* role of a character), so substring tests, str.replace and splitext are  *)
(* computed the way Python computes them.  A comma separated value is the  *)
(* sequence of its comma separated pieces; "" is the empty sequence.       *)
(***************************************************************************)
EXTENDS Integers, Sequences, FiniteSets, Bags, TLC

VARIABLES
    loose,      \* files directly in the scanned folder F
    main,       \* sub-folders F/<name>
    arch,       \* sub-folders F/_archive/<name>
    objs,       \* live Imageset objects, by imageset name
    db,         \* imagesets table rows, by imageset name
    last,       \* record of the last operation (history, for the properties)
    imagesetfiles,      \* rows of the imagesetfiles table
    imagesetfile_tags,  \* rows of the imagesetfile_tags table
    image_paths,        \* the imagesets rows of (F, cat): id and image paths
    next_id,            \* the next AUTOINCREMENT id of each table
    parsed,     \* the last call of get_imageset_from_filename
    doc,        \* a sidecar document and the last value read from it
    registry,   \* the folder registry: memory, flat file, folders table
    tables,     \* the relational tables with their foreign keys
    held        \* an Imageset object's files dict and its last orig_image

\* the file mirror of one imageset in the database
mirror == <<imagesetfiles, imagesetfile_tags, image_paths, next_id>>

\* the state of the components that are specified on their own
apart == <<parsed, doc, registry, tables, held>>

vars == <<loose, main, arch, objs, db, last, mirror, apart>>

---------------------------------------------------------------------------
(* Bounds of the model                                                     *)

MaxLoose == 2       \* loose files in the scanned folder at the start
MaxItems == 2       \* comma separated elements in a value given to a setter

---------------------------------------------------------------------------
(* Python string primitives on symbol sequences                            *)

\* p in s
Contains(s, p) ==
    \E i \in 1..(Len(s) - Len(p) + 1) : SubSeq(s, i, i + Len(p) - 1) = p

\* s.startswith(p)
StartsWith(s, p) == Len(s) >= Len(p) /\ SubSeq(s, 1, Len(p)) = p

\* s.replace(p, "") for a non-empty p: leftmost non-overlapping occurrences
RECURSIVE Replace(_, _)
Replace(s, p) ==
    IF Len(s) < Len(p) \/ Len(p) = 0 THEN s
    ELSE IF SubSeq(s, 1, Len(p)) = p
         THEN Replace(SubSeq(s, Len(p) + 1, Len(s)), p)
         ELSE <<s[1]>> \o Replace(Tail(s), p)

\* str.lower on one symbol (the symbols that occur in both cases)
Lower(c) ==
    CASE c = "PNG" -> "png"
      [] c = "Status" -> "status"
      [] c = "Biz" -> "biz"
      [] c = "Keep" -> "keep"
      [] c = "Stock" -> "stock"
      [] c = "Orig" -> "orig"
      [] OTHER -> c

\* os.path.splitext: the extension starts at the last dot, unless only dots
\* precede it
splitext(s) ==
    LET D == {i \in 1..Len(s) : s[i] = "."}
        d == IF D = {} THEN 0 ELSE CHOOSE i \in D : \A j \in D : j <= i
    IN  IF d = 0 \/ (\A j \in 1..(d - 1) : s[j] = ".")
        THEN [base |-> s, ext |-> <<>>]
        ELSE [base |-> SubSeq(s, 1, d - 1), ext |-> SubSeq(s, d, Len(s))]

parse_file_parts(file_name) == splitext(file_name)

image_extensions == {"jpg", "jpeg", "png", "gif", "bmp", "webp"}

is_image_file(file_name) ==
    LET ext == parse_file_parts(file_name).ext
    IN  Len(ext) = 2 /\ Lower(ext[2]) \in image_extensions

\* Config.get_file_tags: the ordered tag vocabulary (the default list)
FileTags ==
    <<"orig", "thumb", "v2", "v3", "v4", "v5", "up2", "up3", "up4", "up6">>

RECURSIVE StripTags(_, _, _, _)
StripTags(base, tags, i, found) ==
    IF i > Len(tags) THEN [base |-> base, tags |-> found]
    ELSE LET tag_pattern == <<"_", tags[i]>>
         IN  IF Contains(base, tag_pattern)
             THEN StripTags(Replace(base, tag_pattern), tags, i + 1,
                            Append(found, tags[i]))
             ELSE StripTags(base, tags, i + 1, found)

\* a parser that strips the tags from the whole file name and splits after
get_imageset_from_filename_stripping_first(file_name, file_tags) ==
    LET r     == StripTags(file_name, file_tags, 1, <<>>)
        parts == parse_file_parts(r.base)
    IN  [imageset_name |-> parts.base, ext |-> parts.ext, tags |-> r.tags]

\* returns (imageset_name, extension, tags)
get_imageset_from_filename(file_name, file_tags) ==
    LET parts == parse_file_parts(file_name)
        r     == StripTags(parts.base, file_tags, 1, <<>>)
    IN  [imageset_name |-> r.base, ext |-> parts.ext, tags |-> r.tags]

\* the tag test of Imageset._get_imageset_files
HasTag(file_name, tag) ==
    \/ Contains(file_name, <<"_", tag, "_">>)
    \/ Contains(file_name, <<"_", tag, ".">>)

FileTagsOf(file_name) ==
    SelectSeq(FileTags, LAMBDA t : HasTag(file_name, t))

---------------------------------------------------------------------------
(* Configured vocabularies (config.toml, as listed in                      *)
(* imageset_batch_update.py)                                               *)

valid_status    == {"new", "keep", "edit", "working", "posted", "archive"}
valid_edits     == {"creative", "photoshop", "rmbg"}
valid_needs     == {"upscale", "vector", "orig", "thumbnail", "interview"}
valid_good_for  == {"stock", "rb", "poster"}
valid_posted_to == {"stock", "rb", "tp", "faa", "etsy"}

\* config_data["img_file_ext"]
img_file_ext == {"jpg", "jpeg", "png", "gif", "bmp", "webp"}

Fields == {"edits", "needs", "good_for", "posted_to"}

valid_options(field) ==
    CASE field = "status"    -> valid_status
      [] field = "edits"     -> valid_edits
      [] field = "needs"     -> valid_needs
      [] field = "good_for"  -> valid_good_for
      [] field = "posted_to" -> valid_posted_to

---------------------------------------------------------------------------
(* Comma separated values                                                  *)

\* item.strip() of one comma separated piece (" " is a blank piece)
Strip(piece) == IF piece = " " THEN "" ELSE piece

\* [item.strip() for item in value.split(',') if item.strip()]
Items(value) == SelectSeq(value, LAMBDA p : Strip(p) /= "")

\* bool(value and value.strip())
IsNonBlank(value) ==
    value /= <<>> /\ (Len(value) >= 2 \/ Strip(value[1]) /= "")

Elements(value) == {Items(value)[i] : i \in 1..Len(Items(value))}

\* validation that accepts every value
_validate_accepting_all(value, valid) == FALSE

\* TRUE iff _validate_comma_separated_values raises ValueError
_validate_comma_separated_values(value, valid) ==
    value /= <<>> /\ \E i \in 1..Len(Items(value)) : Items(value)[i] \notin valid

\* TRUE iff the status setter's validation raises ValueError
StatusInvalid(value) == value /= "" /\ value \notin valid_status

---------------------------------------------------------------------------
(* The filesystem: folders and TOML sidecars                               *)

\* a sidecar document; st is "none" (no file), "corrupt" (not parseable
\* TOML) or "ok".  good_for is the top level key the Imageset property uses,
\* posted_to and biz_good_for are the keys of the [biz] section
NoToml ==
    [st |-> "none", status |-> "", edits |-> <<>>, needs |-> <<>>,
     good_for |-> <<>>, posted_to |-> <<>>, biz_good_for |-> <<>>]

CorruptToml == [NoToml EXCEPT !.st = "corrupt"]

\* the default document written by ImagesetToml._validate_toml_file
DefaultToml == [NoToml EXCEPT !.st = "ok", !.status = "new"]

NoDir == [exists |-> FALSE, files |-> {}, toml |-> NoToml]

NewDir(files, toml) == [exists |-> TRUE, files |-> files, toml |-> toml]

NoObj == [live |-> FALSE, imageset_folder |-> "main"]

NoRow == [present |-> FALSE, status |-> "", edits |-> <<>>, needs |-> <<>>,
          good_for |-> <<>>]

FS == [loose |-> loose, main |-> main, arch |-> arch]

\* the folder an Imageset object is bound to
DirAt(fs, loc, name) == IF loc = "arch" THEN fs.arch[name] ELSE fs.main[name]

SetDirAt(fs, loc, name, d) ==
    IF loc = "arch" THEN [fs EXCEPT !.arch[name] = d]
    ELSE [fs EXCEPT !.main[name] = d]

\* ImagesetToml.__init__ on an existing folder: load the sidecar or create
\* it with the defaults; a document that does not parse raises
ImagesetTomlInit(d) ==
    IF d.toml.st = "corrupt" THEN [raised |-> TRUE, dir |-> d]
    ELSE IF d.toml.st = "none"
         THEN [raised |-> FALSE, dir |-> [d EXCEPT !.toml = DefaultToml]]
         ELSE [raised |-> FALSE, dir |-> d]

---------------------------------------------------------------------------
(* Imageset                                                                *)

IsImg(file_name) ==
    LET ext == splitext(file_name).ext
    IN  Len(ext) = 2 /\ Lower(ext[2]) \in {Lower(e) : e \in img_file_ext}

image_files(files) == {f \in files : IsImg(f)}

\* the file orig_image renames (case 3a and 3b), {} when it renames none
OrigToTag(files) ==
    LET imgs     == image_files(files)
        origs    == {f \in imgs : HasTag(f, "orig")}
        untagged == {f \in imgs : FileTagsOf(f) = <<>>}
    IN  IF origs /= {} THEN {}
        ELSE IF Cardinality(imgs) = 1 THEN imgs
        ELSE IF Cardinality(untagged) = 1 THEN untagged
        ELSE {}

\* name_part + "_" + tag + ext_part
TaggedName(filename, tag) ==
    splitext(filename).base \o <<"_", tag>> \o splitext(filename).ext

\* add_tag_to_file: rename the file so that it carries the tag
add_tag_to_file(d, filename, tag) ==
    IF tag \notin {FileTags[i] : i \in 1..Len(FileTags)}
       \/ filename \notin d.files
       \/ HasTag(filename, tag)
       \/ TaggedName(filename, tag) \in d.files
    THEN [raised |-> TRUE, dir |-> d]
    ELSE [raised |-> FALSE,
          dir |-> [d EXCEPT !.files = (d.files \ {filename})
                                       \cup {TaggedName(filename, tag)}]]

\* the orig_image property: raises without an image file, tags the original
\* when no file carries the orig tag
orig_image(d) ==
    IF image_files(d.files) = {} THEN [raised |-> TRUE, dir |-> d]
    ELSE IF OrigToTag(d.files) = {} THEN [raised |-> FALSE, dir |-> d]
    ELSE add_tag_to_file(d, CHOOSE f \in OrigToTag(d.files) : TRUE, "orig")

\* _ensure_archive_location for an object built from F/<name>: a sidecar
\* that says "archive" moves the folder under F/_archive, a taken target
\* raises FileExistsError
_ensure_archive_location(fs, name) ==
    IF fs.main[name].toml.status /= "archive"
    THEN [raised |-> FALSE, fs |-> fs, loc |-> "main"]
    ELSE IF fs.arch[name].exists
    THEN [raised |-> TRUE, fs |-> fs, loc |-> "main"]
    ELSE [raised |-> FALSE, loc |-> "arch",
          fs |-> [fs EXCEPT !.arch[name] = fs.main[name],
                            !.main[name] = NoDir]]

\* Imageset.__init__(config, F, name): effects on the filesystem, whether
\* it raised, and where the object's imageset_folder points
ImagesetInit(fs, name) ==
    IF ~fs.main[name].exists
    THEN [raised |-> TRUE, fs |-> fs, loc |-> "main"]
    ELSE
    LET t   == ImagesetTomlInit(fs.main[name])
        fs1 == [fs EXCEPT !.main[name] = t.dir]
        e   == _ensure_archive_location(fs1, name)
        o   == orig_image(DirAt(e.fs, e.loc, name))
    IN  IF t.raised THEN [raised |-> TRUE, fs |-> fs, loc |-> "main"]
        ELSE IF e.raised THEN [raised |-> TRUE, fs |-> e.fs, loc |-> "main"]
        ELSE [raised |-> o.raised, loc |-> e.loc,
              fs |-> SetDirAt(e.fs, e.loc, name, o.dir)]

---------------------------------------------------------------------------
(* ImagesetFolder: the folder scanner                                      *)

\* entries folder_scan lists: not "_..." and not "index...."
Visible(item) ==
    ~StartsWith(item, <<"_">>) /\ ~StartsWith(item, <<"index", ".">>)

\* the orders in which os.listdir can return a set of entries
Orders(S) ==
    {o \in [1..Cardinality(S) -> S] : \A i, j \in 1..Cardinality(S) :
                                          o[i] = o[j] => i = j}

SeqSet(q) == {q[i] : i \in 1..Len(q)}

\* create_folder(F/<name>)
create_folder(fs, name) ==
    IF fs.main[name].exists THEN fs
    ELSE [fs EXCEPT !.main[name] = NewDir({}, NoToml)]

\* the files move_files(pattern, F, F/<name>) moves: every file of F whose
\* name contains the pattern
MovedBy(fs, pattern) == {g \in fs.loose : Contains(g, pattern)}

move_files(fs, pattern, name) ==
    LET fs1 == create_folder(fs, name)
    IN  [fs1 EXCEPT !.loose = @ \ MovedBy(fs, pattern),
                    !.main[name].files = @ \cup MovedBy(fs, pattern)]

\* one iteration of the loose file loop of folder_scan
LooseStep(st, loose_file) ==
    IF loose_file \notin st.fs.loose \/ ~is_image_file(loose_file) THEN st
    ELSE
    LET imageset_name ==
            get_imageset_from_filename(loose_file, FileTags).imageset_name
        isNew == ~st.fs.main[imageset_name].exists
        fs1   == create_folder(st.fs, imageset_name)
    IN  [fs      |-> move_files(fs1, imageset_name, imageset_name),
         subs    |-> IF isNew THEN Append(st.subs, imageset_name) ELSE st.subs,
         created |-> IF isNew THEN st.created \cup {imageset_name}
                     ELSE st.created,
         moved   |-> st.moved \cup MovedBy(fs1, imageset_name)]

RECURSIVE LooseLoop(_, _, _)
LooseLoop(st, loose_files, i) ==
    IF i > Len(loose_files) THEN st
    ELSE CHOOSE r \in {LooseLoop(next, loose_files, i + 1) :
                            next \in {LooseStep(st, loose_files[i])}} : TRUE

\* move_folder(F/<name>, F/_archive): one rename of the whole directory,
\* which fails (returns False) when F/_archive/<name> is taken
move_folder(fs, name) ==
    IF fs.arch[name].exists THEN [ok |-> FALSE, fs |-> fs]
    ELSE [ok |-> TRUE,
          fs |-> [fs EXCEPT !.arch[name] = fs.main[name],
                            !.main[name] = NoDir]]

\* _sync_archived_imageset_to_db: sync_imageset_toml_to_db on the archived
\* folder opens its sidecar (creating a missing one) and then finds no
\* folders row for F/_archive, so that no row is written
_sync_archived_imageset_to_db(fs, name) ==
    [fs EXCEPT !.arch[name] = ImagesetTomlInit(@).dir]

HasImages(d) == \E f \in d.files : is_image_file(f)

RECURSIVE ArchiveEach(_, _, _, _)
ArchiveEach(fs, names, i, done) ==
    IF i > Len(names) THEN [fs |-> fs, archived |-> done]
    ELSE LET m == move_folder(fs, names[i])
         IN  IF m.ok
             THEN ArchiveEach(_sync_archived_imageset_to_db(m.fs, names[i]),
                              names, i + 1, done \cup {names[i]})
             ELSE ArchiveEach(fs, names, i + 1, done)

\* archive_abandoned_folders with the has_images test inverted
archive_abandoned_folders_inverted(fs, imagesets) ==
    LET imagesets_remaining ==
            SelectSeq(imagesets, LAMBDA n : ~HasImages(fs.main[n]))
        imagesets_to_archive ==
            SelectSeq(imagesets, LAMBDA n : HasImages(fs.main[n]))
        a == ArchiveEach(fs, imagesets_to_archive, 1, {})
    IN  [fs |-> a.fs, remaining |-> imagesets_remaining,
         archived |-> a.archived]

\* archive_abandoned_folders: folders without an image file go to _archive,
\* the others are returned
archive_abandoned_folders(fs, imagesets) ==
    LET imagesets_remaining ==
            SelectSeq(imagesets, LAMBDA n : HasImages(fs.main[n]))
        imagesets_to_archive ==
            SelectSeq(imagesets, LAMBDA n : ~HasImages(fs.main[n]))
        a == ArchiveEach(fs, imagesets_to_archive, 1, {})
    IN  [fs |-> a.fs, remaining |-> imagesets_remaining,
         archived |-> a.archived]

\* one iteration of the sub-folder loop: build the Imageset, keep it in the
\* map unless its status is "archive"
SubStep(st, imageset_name) ==
    LET Built(c) ==
            LET d == DirAt(c.fs, c.loc, imageset_name)
            IN  [fs        |-> c.fs,
                 raised    |-> c.raised,
                 processed |-> st.processed \cup {imageset_name},
                 failed    |-> IF c.raised THEN {imageset_name} ELSE {},
                 imagesets |-> IF ~c.raised /\ d.toml.status /= "archive"
                               THEN st.imagesets \cup {imageset_name}
                               ELSE st.imagesets,
                 relocated |-> IF c.fs.arch[imageset_name]
                                      /= st.fs.arch[imageset_name]
                               THEN st.relocated \cup {imageset_name}
                               ELSE st.relocated,
                 renamed   |-> IF d.files /= st.fs.main[imageset_name].files
                               THEN st.renamed \cup {imageset_name}
                               ELSE st.renamed]
    IN  CHOOSE r \in {Built(c) : c \in {ImagesetInit(st.fs, imageset_name)}} :
            TRUE

\* the sub-folder loop stops at the first constructor that raises: the
\* exception leaves the loop and is caught at the end of folder_scan
RECURSIVE SubLoop(_, _, _)
SubLoop(st, subfolders, i) ==
    IF i > Len(subfolders) \/ st.raised THEN st
    ELSE CHOOSE r \in {SubLoop(next, subfolders, i + 1) :
                            next \in {SubStep(st, subfolders[i])}} : TRUE

\* folder_scan with the listing order of the loose files and sub-folders
\* (each of the three phases is evaluated once: l is the outcome of the
\* loose file loop, a that of archive_abandoned_folders, s that of the
\* sub-folder loop)
folder_scan(fs, loose_files, subfolders) ==
    LET Outcome(l, a, s) ==
            [fs         |-> s.fs,
             ok         |-> ~s.raised,
             listed     |-> {f \in SeqSet(loose_files) : is_image_file(f)},
             imagesets  |-> s.imagesets,
             created    |-> l.created,
             moved      |-> l.moved,
             candidates |-> SeqSet(l.subs),
             abandoned  |-> SeqSet(l.subs) \ SeqSet(a.remaining),
             archived   |-> a.archived,
             processed  |-> s.processed,
             failed     |-> s.failed,
             relocated  |-> s.relocated,
             renamed    |-> s.renamed]
        Subfolders(l, a) ==
            CHOOSE r \in {Outcome(l, a, s) :
                             s \in {SubLoop([fs |-> a.fs, raised |-> FALSE,
                                             imagesets |-> {},
                                             processed |-> {}, failed |-> {},
                                             relocated |-> {},
                                             renamed |-> {}],
                                            a.remaining, 1)}} : TRUE
        Abandoned(l) ==
            CHOOSE r \in {Subfolders(l, a) :
                             a \in {archive_abandoned_folders(l.fs, l.subs)}} :
                TRUE
    IN  CHOOSE r \in {Abandoned(l) :
                         l \in {LooseLoop([fs |-> fs, subs |-> subfolders,
                                           created |-> {}, moved |-> {}],
                                          loose_files, 1)}} : TRUE

---------------------------------------------------------------------------
(* Imageset setters                                                        *)

\* ImagesetToml.set(key=..., value=...) through the object's sidecar binding
toml_set(fs, loc, name, key, value) ==
    SetDirAt(fs, loc, name, [DirAt(fs, loc, name) EXCEPT !.toml[key] = value])

\* archive_imageset that moves the folder but keeps the old binding
archive_imageset_keeps_binding(fs, loc, name) ==
    IF fs.arch[name].exists
    THEN [raised |-> TRUE, fs |-> fs, loc |-> loc]
    ELSE [raised |-> FALSE, loc |-> loc,
          fs |-> [fs EXCEPT !.arch[name] = fs.main[name],
                            !.main[name] = NoDir]]

\* archive_imageset: move the folder to F/_archive/<name> and re-bind the
\* object; a taken target raises FileExistsError before anything moves
archive_imageset(fs, loc, name) ==
    IF fs.arch[name].exists
    THEN [raised |-> TRUE, fs |-> fs, loc |-> loc]
    ELSE [raised |-> FALSE, loc |-> "arch",
          fs |-> [fs EXCEPT !.arch[name] = fs.main[name],
                            !.main[name] = NoDir]]

\* status setter that stores "edit" instead of the value while edits is
\* non-empty
status_setter_forcing_edit(fs, loc, name, value) ==
    IF StatusInvalid(value)
    THEN [raised |-> TRUE, invalid |-> TRUE, fs |-> fs, loc |-> loc]
    ELSE LET forced == IF value /= "archive"
                          /\ DirAt(fs, loc, name).toml.edits /= <<>>
                       THEN "edit" ELSE value
             fs1 == toml_set(fs, loc, name, "status", forced)
             a   == archive_imageset(fs1, loc, name)
         IN  IF value = "archive"
             THEN [raised |-> a.raised, invalid |-> FALSE, fs |-> a.fs,
                   loc |-> a.loc]
             ELSE [raised |-> FALSE, invalid |-> FALSE, fs |-> fs1,
                   loc |-> loc]

\* status setter: validate, write the sidecar, then archive when the value
\* is "archive"
status_setter(fs, loc, name, value) ==
    IF StatusInvalid(value)
    THEN [raised |-> TRUE, invalid |-> TRUE, fs |-> fs, loc |-> loc]
    ELSE LET fs1 == toml_set(fs, loc, name, "status", value)
             a   == archive_imageset(fs1, loc, name)
         IN  IF value = "archive"
             THEN [raised |-> a.raised, invalid |-> FALSE, fs |-> a.fs,
                   loc |-> a.loc]
             ELSE [raised |-> FALSE, invalid |-> FALSE, fs |-> fs1,
                   loc |-> loc]

\* edits setter that leaves status alone
edits_setter_without_coupling(fs, loc, name, value) ==
    IF _validate_comma_separated_values(value, valid_edits)
    THEN [raised |-> TRUE, invalid |-> TRUE, fs |-> fs, loc |-> loc]
    ELSE [raised |-> FALSE, invalid |-> FALSE, loc |-> loc,
          fs |-> toml_set(fs, loc, name, "edits", value)]

\* edits setter that forces status to "edit" before it validates the value
edits_setter_validating_late(fs, loc, name, value) ==
    LET s   == status_setter(fs, loc, name, "edit")
        fs1 == IF IsNonBlank(value)
                  /\ DirAt(fs, loc, name).toml.status /= "edit"
               THEN s.fs ELSE fs
    IN  IF _validate_comma_separated_values(value, valid_edits)
        THEN [raised |-> TRUE, invalid |-> TRUE, fs |-> fs1, loc |-> loc]
        ELSE [raised |-> FALSE, invalid |-> FALSE, loc |-> loc,
              fs |-> toml_set(fs1, loc, name, "edits", value)]

\* edits setter: validate, force status to "edit" for a non-blank value,
\* write the sidecar
edits_setter(fs, loc, name, value) ==
    IF _validate_comma_separated_values(value, valid_edits)
    THEN [raised |-> TRUE, invalid |-> TRUE, fs |-> fs, loc |-> loc]
    ELSE LET s   == status_setter(fs, loc, name, "edit")
             fs1 == IF IsNonBlank(value)
                       /\ DirAt(fs, loc, name).toml.status /= "edit"
                    THEN s.fs ELSE fs
         IN  [raised |-> FALSE, invalid |-> FALSE, loc |-> loc,
              fs |-> toml_set(fs1, loc, name, "edits", value)]

\* needs, good_for and posted_to setters: validate, write the sidecar
field_setter(fs, loc, name, field, value) ==
    IF _validate_comma_separated_values(value, valid_options(field))
    THEN [raised |-> TRUE, invalid |-> TRUE, fs |-> fs, loc |-> loc]
    ELSE [raised |-> FALSE, invalid |-> FALSE, loc |-> loc,
          fs |-> toml_set(fs, loc, name, field, value)]

\* the setter of a property, by name; value is a string for status and a
\* comma separated value for the other properties
setter(fs, loc, name, field, svalue, value) ==
    IF field = "status" THEN status_setter(fs, loc, name, svalue)
    ELSE IF field = "edits" THEN edits_setter(fs, loc, name, value)
    ELSE field_setter(fs, loc, name, field, value)

---------------------------------------------------------------------------
(* ImagesetBatch                                                           *)

\* an append that puts the new value first
_get_appended_value_prepending(current_value, new_value) ==
    IF current_value = <<>> THEN <<new_value>>
    ELSE IF new_value \in Elements(current_value) THEN current_value
    ELSE <<new_value>> \o Items(current_value)

\* _get_appended_value: append new_value unless it is already an element
_get_appended_value(current_value, new_value) ==
    IF current_value = <<>> THEN <<new_value>>
    ELSE IF new_value \in Elements(current_value) THEN current_value
    ELSE Append(Items(current_value), new_value)

\* _validate_append
_validate_append(update_type, append) ==
    IF update_type = "status" THEN FALSE ELSE append


\* ImagesetBatch._validate_imagesets: one Imageset per listed name, the
\* first missing folder or failing constructor raises
RECURSIVE _validate_imagesets(_, _, _, _)
_validate_imagesets(fs, imagesets, i, locs) ==
    IF i > Len(imagesets) THEN [raised |-> FALSE, fs |-> fs, locs |-> locs]
    ELSE IF ~fs.main[imagesets[i]].exists
    THEN [raised |-> TRUE, fs |-> fs, locs |-> locs]
    ELSE LET c == ImagesetInit(fs, imagesets[i])
         IN  IF c.raised THEN [raised |-> TRUE, fs |-> c.fs, locs |-> locs]
             ELSE _validate_imagesets(c.fs, imagesets, i + 1,
                                      [locs EXCEPT ![imagesets[i]] = c.loc])

\* the value of a property as _get_current_property_value reads it
CurrentValue(fs, loc, name, field) == DirAt(fs, loc, name).toml[field]

\* update_now: set the property on every imageset, collecting the names
\* whose setter raised
RECURSIVE update_now(_, _, _, _, _, _, _, _)
update_now(fs, locs, imagesets, i, update_type, value, append, errors) ==
    IF i > Len(imagesets)
    THEN [fs |-> fs, locs |-> locs, error_imagesets |-> errors]
    ELSE
    LET n == imagesets[i]
        final_value ==
            IF append
            THEN _get_appended_value(CurrentValue(fs, locs[n], n, update_type),
                                     value)
            ELSE <<value>>
        r == setter(fs, locs[n], n, update_type, value, final_value)
    IN  update_now(r.fs, [locs EXCEPT ![n] = r.loc], imagesets, i + 1,
                   update_type, value, append,
                   IF r.raised THEN errors \cup {n} ELSE errors)

---------------------------------------------------------------------------
(* TOML <-> database synchronisation of the imageset row                   *)

\* sync_imageset_toml_to_db(config, F, name): upsert the row from the
\* sidecar; good_for is read from the [biz] section
sync_imageset_toml_to_db(fs, rows, name) ==
    LET t == ImagesetTomlInit(fs.main[name])
    IN  IF ~fs.main[name].exists \/ t.raised
        THEN [ok |-> FALSE, fs |-> fs, db |-> rows]
        ELSE [ok |-> TRUE,
              fs |-> [fs EXCEPT !.main[name] = t.dir],
              db |-> [rows EXCEPT ![name] =
                        [present  |-> TRUE,
                         status   |-> t.dir.toml.status,
                         edits    |-> t.dir.toml.edits,
                         needs    |-> t.dir.toml.needs,
                         good_for |-> t.dir.toml.biz_good_for]]]

\* sync_imageset_db_to_toml(config, F, name): write the row's non-empty
\* status, edits and needs into the sidecar
sync_imageset_db_to_toml(fs, rows, name) ==
    LET t  == ImagesetTomlInit(fs.main[name])
        r  == rows[name]
        t1 == IF r.status /= "" THEN [t.dir.toml EXCEPT !.status = r.status]
              ELSE t.dir.toml
        t2 == IF r.edits /= <<>> THEN [t1 EXCEPT !.edits = r.edits] ELSE t1
        t3 == IF r.needs /= <<>> THEN [t2 EXCEPT !.needs = r.needs] ELSE t2
    IN  IF ~r.present \/ ~fs.main[name].exists \/ t.raised
        THEN [ok |-> FALSE, fs |-> fs]
        ELSE [ok |-> TRUE,
              fs |-> [fs EXCEPT !.main[name] = [t.dir EXCEPT !.toml = t3]]]

---------------------------------------------------------------------------
(* The names and values the model draws its inputs from                    *)

cat          == <<"cat">>
dog          == <<"dog">>
cat_b        == <<"cat", "_", "b">>
cat0         == <<"cat", "0">>

cat_png      == <<"cat", ".", "png">>
cat_orig_png == <<"cat", "_", "orig", ".", "png">>
cat_v2_png   == <<"cat", "_", "v2", ".", "png">>
cat_v2_b_png == <<"cat", "_", "v2", "_", "b", ".", "png">>
cat0_png     == <<"cat", "0", ".", "png">>
cat_txt      == <<"cat", ".", "txt">>
dog_PNG      == <<"dog", ".", "PNG">>
dog_orig_png == <<"dog", "_", "orig", ".", "png">>
hidden_png   == <<"_", "cat", ".", "png">>
index_png    == <<"index", ".", "cat", ".", "png">>

\* folder names that can exist under F and under F/_archive
DirNames == {cat, dog, cat_b, cat0}

\* files that can lie loose in F
LooseFiles == {cat_png, cat_orig_png, cat_v2_png, cat_v2_b_png, cat0_png,
               cat_txt, dog_PNG, hidden_png, index_png}

ArchivedToml == [DefaultToml EXCEPT !.status = "archive"]

\* a folder of the same name that was archived earlier
Occupant == NewDir({cat_orig_png}, ArchivedToml)

\* sequences of 1..n elements of S
SeqsUpTo(S, n) == UNION {[1..k -> S] : k \in 1..n}

StatusInputs == {"", "keep", "edit", "archive", "bogus"}

\* values given to the edits setter: up to MaxItems elements, valid or not,
\* the empty string and a blank string
EditsInputs ==
    SeqsUpTo({"creative", "photoshop", "bogus"}, MaxItems)
        \cup {<<>>, <<" ">>}

FieldInputs(field) ==
    LET w == CHOOSE x \in valid_options(field) : TRUE
    IN  {<<>>, <<w>>, <<"bogus">>, <<w, "bogus">>}

\* the smaller input sets of the specification with the database
SyncStatusInputs == {"keep", "bogus"}

SyncFieldInputs(field) ==
    LET w == CHOOSE x \in valid_options(field) : TRUE
    IN  {<<w>>, <<w, "bogus">>}

SyncBatchInputs(update_type) ==
    IF update_type = "edits" THEN {"creative", "bogus"}
    ELSE {CHOOSE x \in valid_options(update_type) : TRUE}

SyncEditsInputs ==
    {<<>>, <<"creative">>, <<"creative", "creative">>, <<"creative", "bogus">>}

\* single values given to a batch update
BatchInputs(update_type) ==
    IF update_type = "status" THEN {"keep", "archive", "bogus"}
    ELSE IF update_type = "edits" THEN {"creative", "photoshop", "bogus"}
    ELSE {CHOOSE x \in valid_options(update_type) : TRUE}

cat_orig_v2_png    == <<"cat", "_", "orig", "_", "v2", ".", "png">>
cat_orig_thumb_png == <<"cat", "_", "orig", "_", "thumb", ".", "png">>
cat_thumb_png      == <<"cat", "_", "thumb", ".", "png">>
cat_toml           == <<"cat", ".", "toml">>

\* the regular files of an imageset folder: its files and its sidecar
Listed(d) ==
    d.files \cup (IF d.toml.st = "none" THEN {} ELSE {cat_toml})

---------------------------------------------------------------------------
(* The file rows, tag rows and image paths written by                      *)
(* sync_imageset_toml_to_db                                                *)

\* the largest id the imagesetfiles table hands out
MaxId == 5

\* the most files the synchronised folder holds next to its sidecar
MaxKept == 2

\* files the synchronised folder can hold
MirrorFiles == {cat_png, cat_orig_png, cat_orig_thumb_png, cat_thumb_png}

\* ORDER BY filename over the file names of the folder ("." sorts before
\* "_", "o" before "t")
ByFilename ==
    <<cat_png, cat_toml, cat_orig_png, cat_orig_thumb_png, cat_thumb_png>>

\* os.listdir returning the files in the order of their names
InNameOrder ==
    [S \in SUBSET SeqSet(ByFilename) |->
        {SelectSeq(ByFilename, LAMBDA f : f \in S)}]

\* os.listdir returning the files in any order
InAnyOrder == [S \in SUBSET SeqSet(ByFilename) |-> Orders(S)]

\* the file_type sync_from_filesystem stores
file_type(file_name) ==
    IF splitext(file_name).ext = <<".", "toml">> THEN "toml"
    ELSE IF splitext(file_name).ext = <<".", "txt">> THEN "text"
    ELSE IF Contains(file_name, <<"interview">>) THEN "interview"
    ELSE IF IsImg(file_name) THEN "image"
    ELSE "other"

\* ON DELETE CASCADE from imagesetfiles to imagesetfile_tags
CascadeTags(tags, ids) ==
    [e \in {x \in DOMAIN tags : x.imagesetfile_id \notin ids} |-> tags[e]]

\* sync_from_filesystem that deletes no row
sync_from_filesystem_appending(m, imageset_id, listing) ==
    LET mine    == {r \in m.imagesetfiles : r.imageset_id = imageset_id}
        new     == SelectSeq(listing,
                             LAMBDA f : f \notin {r.filename : r \in mine})
    IN  [m EXCEPT
           !.imagesetfiles = @ \cup
               {[id |-> m.next_id.imagesetfiles + k - 1,
                 imageset_id |-> imageset_id, filename |-> new[k],
                 file_type |-> file_type(new[k])] : k \in 1..Len(new)},
           !.next_id.imagesetfiles = @ + Len(new)]

\* ImagesetFilesTable.sync_from_filesystem with os.listdir returning
\* `listing`: a row for every new file, none for a file that is gone
sync_from_filesystem(m, imageset_id, listing) ==
    LET mine    == {r \in m.imagesetfiles : r.imageset_id = imageset_id}
        new     == SelectSeq(listing,
                             LAMBDA f : f \notin {r.filename : r \in mine})
        created == {[id |-> m.next_id.imagesetfiles + k - 1,
                     imageset_id |-> imageset_id,
                     filename |-> new[k],
                     file_type |-> file_type(new[k])] : k \in 1..Len(new)}
        gone    == {r \in mine : r.filename \notin SeqSet(listing)}
    IN  [m EXCEPT
           !.imagesetfiles = (@ \ gone) \cup created,
           !.imagesetfile_tags = CascadeTags(@, {r.id : r \in gone}),
           !.next_id.imagesetfiles = @ + Len(new)]

\* set_tags_for_file that deletes nothing
set_tags_for_file_keeping(tags, imagesetfile_id, new) ==
    tags (+) SetToBag({[imagesetfile_id |-> imagesetfile_id, tag |-> new[i]] :
                          i \in 1..Len(new)})

\* ImagesetFileTagsTable.set_tags_for_file: delete the file's tag rows, then
\* insert one row per tag
set_tags_for_file(tags, imagesetfile_id, new) ==
    CascadeTags(tags, {imagesetfile_id})
        (+) SetToBag({[imagesetfile_id |-> imagesetfile_id, tag |-> new[i]] :
                         i \in 1..Len(new)})

\* ImagesetFilesTable.get_by_imageset_id: the rows ordered by filename
get_by_imageset_id(rows, imageset_id) ==
    LET names == SelectSeq(ByFilename, LAMBDA f :
                     \E r \in rows : r.imageset_id = imageset_id
                                        /\ r.filename = f)
    IN  [k \in 1..Len(names) |->
            CHOOSE r \in rows : r.imageset_id = imageset_id
                                  /\ r.filename = names[k]]

RECURSIVE SyncTags(_, _, _)
\* the tag loop of sync_imageset_toml_to_db: the tags of a file name are
\* written only when there is one
SyncTags(tags, files, i) ==
    IF i > Len(files) THEN tags
    ELSE CHOOSE r \in
             {SyncTags(next, files, i + 1) :
                 next \in {IF FileTagsOf(files[i].filename) /= <<>>
                           THEN set_tags_for_file(tags, files[i].id,
                                    FileTagsOf(files[i].filename))
                           ELSE tags}} : TRUE

\* ImagesetFileTagsTable.get_tags_by_file_id
get_tags_by_file_id(tags, imagesetfile_id) ==
    {e.tag : e \in {x \in BagToSet(tags) :
                        x.imagesetfile_id = imagesetfile_id}}

\* the cover and orig image computed from the rows: thumb, else orig, else
\* any image; the first row that has the orig tag and not the thumb tag
ComputedPaths(files, tags) ==
    LET imgs  == SelectSeq(files, LAMBDA r : r.file_type = "image")
        thumb == SelectSeq(imgs, LAMBDA r :
                     "thumb" \in get_tags_by_file_id(tags, r.id))
        orig  == SelectSeq(imgs, LAMBDA r :
                     /\ "thumb" \notin get_tags_by_file_id(tags, r.id)
                     /\ "orig" \in get_tags_by_file_id(tags, r.id))
        other == SelectSeq(imgs, LAMBDA r :
                     /\ "thumb" \notin get_tags_by_file_id(tags, r.id)
                     /\ "orig" \notin get_tags_by_file_id(tags, r.id))
    IN  [cover_image_path |->
             IF thumb /= <<>> THEN thumb[1].filename
             ELSE IF orig /= <<>> THEN orig[1].filename
             ELSE IF other /= <<>> THEN other[1].filename
             ELSE <<>>,
         orig_image_path |->
             IF orig /= <<>> THEN orig[1].filename ELSE <<>>]

\* imagesets_table.update(id, cover_image_path=..., orig_image_path=...):
\* called when one of the two is set, and a None leaves the column alone
UpdatePaths(row, p) ==
    IF p.cover_image_path = <<>> /\ p.orig_image_path = <<>> THEN row
    ELSE [row EXCEPT
            !.cover_image_path =
                IF p.cover_image_path /= <<>> THEN p.cover_image_path ELSE @,
            !.orig_image_path =
                IF p.orig_image_path /= <<>> THEN p.orig_image_path ELSE @]

\* the second half of sync_imageset_toml_to_db for the imagesets row
\* `existing` ({} when the row is created by this run)
sync_files(m, existing, listing) ==
    LET row == IF existing = {}
               THEN [id |-> m.next_id.imagesets, cover_image_path |-> <<>>,
                     orig_image_path |-> <<>>]
               ELSE CHOOSE r \in existing : TRUE
        m0  == IF existing = {}
               THEN [m EXCEPT !.image_paths = @ \cup {row},
                              !.next_id.imagesets = @ + 1]
               ELSE m
    IN  CHOOSE result \in
          {[m2 EXCEPT !.image_paths = (@ \ {row}) \cup
                         {UpdatePaths(row,
                              ComputedPaths(
                                  get_by_imageset_id(m2.imagesetfiles, row.id),
                                  m2.imagesetfile_tags))}] :
             m2 \in {[m1 EXCEPT !.imagesetfile_tags =
                         SyncTags(@, get_by_imageset_id(m1.imagesetfiles,
                                                        row.id), 1)] :
                        m1 \in {sync_from_filesystem(m0, row.id, listing)}}} :
          TRUE

---------------------------------------------------------------------------
(* State                                                                   *)

NoScan == [ok |-> TRUE, listed |-> {}, imagesets |-> {}, created |-> {},
           moved |-> {},
           candidates |-> {}, abandoned |-> {}, archived |-> {},
           processed |-> {}, failed |-> {}, relocated |-> {}, renamed |-> {}]

\* what folder_scan reports, without the filesystem it left
ScanRecord(r) ==
    [ok |-> r.ok, listed |-> r.listed, imagesets |-> r.imagesets,
     created |-> r.created, moved |-> r.moved, candidates |-> r.candidates,
     abandoned |-> r.abandoned, archived |-> r.archived,
     processed |-> r.processed, failed |-> r.failed,
     relocated |-> r.relocated, renamed |-> r.renamed]

NoPre == [status |-> "", loc |-> "main", taken |-> FALSE]

\* what the operation found for the imageset it was called on
PreOf(name, loc) ==
    [status |-> DirAt(FS, loc, name).toml.status,
     loc    |-> loc,
     taken  |-> arch[name].exists]

\* the database mirror as one record
Mirror ==
    [imagesetfiles |-> imagesetfiles, imagesetfile_tags |-> imagesetfile_tags,
     image_paths |-> image_paths, next_id |-> next_id]

\* the tables of the database
TableNames ==
    {"folders", "imagesets", "imagesetfiles", "imageset_sections",
     "imagesetfile_tags"}

\* the empty database init_database creates
NoTables == [rows |-> {}, next |-> [t \in TableNames |-> 1],
             call |-> [op |-> "init", table |-> "folders", id |-> 0,
                       rows |-> 0]]

\* the folder registry before it is used
NoRegistry == [folders |-> <<>>, file |-> <<>>, table |-> <<>>,
               call |-> <<>>]

\* no sidecar document is loaded
NoDoc == [data |-> <<>>, wrote |-> <<>>, read |-> <<>>]

\* no Imageset object is held
NoHeld == [live |-> FALSE, files |-> <<>>, path |-> <<>>, raised |-> FALSE,
           renamed |-> FALSE]

\* an empty database mirror
MirrorInit ==
    /\ imagesetfiles = {}
    /\ imagesetfile_tags = EmptyBag
    /\ image_paths = {}
    /\ next_id = [imagesets |-> 1, imagesetfiles |-> 1]

\* the other components before their first use
ApartInit ==
    /\ parsed = <<>>
    /\ doc = NoDoc
    /\ registry = NoRegistry
    /\ tables = NoTables
    /\ held = NoHeld

Last(op, name, field, svalue, value, raised, invalid, pre, scan) ==
    [op |-> op, name |-> name, field |-> field, svalue |-> svalue,
     value |-> value, raised |-> raised, invalid |-> invalid,
     pre |-> pre, scan |-> scan]

NoLast == Last("init", cat, "", "", <<>>, FALSE, FALSE, NoPre, NoScan)

Live(loc) == [live |-> TRUE, imageset_folder |-> loc]

\* one imageset folder with a single untagged image and no sidecar yet;
\* F/_archive/cat may be taken by a folder archived earlier
Init ==
    /\ loose = {}
    /\ main = [n \in DirNames |-> IF n = cat THEN NewDir({cat_png}, NoToml)
                                  ELSE NoDir]
    /\ \E occ \in {NoDir, Occupant} :
           arch = [n \in DirNames |-> IF n = cat THEN occ ELSE NoDir]
    /\ objs = [n \in DirNames |-> NoObj]
    /\ db = [n \in DirNames |-> NoRow]
    /\ last = NoLast
    /\ MirrorInit
    /\ ApartInit

SetFS(fs) ==
    /\ loose' = fs.loose
    /\ main' = fs.main
    /\ arch' = fs.arch

\* Imageset(config, F, name)
Load(name) ==
    LET c == ImagesetInit(FS, name)
    IN  /\ SetFS(c.fs)
        /\ objs' = [objs EXCEPT ![name] = IF c.raised THEN NoObj
                                          ELSE Live(c.loc)]
        /\ db' = db
        /\ UNCHANGED <<mirror, apart>>
        /\ last' = Last("load", name, "", "", <<>>, c.raised, FALSE,
                        PreOf(name, "main"), NoScan)

\* imageset.<field> = value on a live object
Set(name, field, svalue, value) ==
    LET loc == objs[name].imageset_folder
        r   == setter(FS, loc, name, field, svalue, value)
    IN  /\ objs[name].live
        /\ SetFS(r.fs)
        /\ objs' = [objs EXCEPT ![name] = Live(r.loc)]
        /\ db' = db
        /\ UNCHANGED <<mirror, apart>>
        /\ last' = Last("set", name, field, svalue, value, r.raised,
                        r.invalid, PreOf(name, loc), NoScan)

SetStatus(name, inputs) == \E v \in inputs : Set(name, "status", v, <<>>)

SetEdits(name, inputs) == \E v \in inputs : Set(name, "edits", "", v)

SetNeeds(name, inputs) ==
    \E v \in inputs : Set(name, "needs", "", v)

SetGoodFor(name, inputs) ==
    \E v \in inputs : Set(name, "good_for", "", v)

SetPostedTo(name, inputs) ==
    \E v \in inputs : Set(name, "posted_to", "", v)

\* imageset.archive_imageset() on a live object
Archive(name) ==
    LET loc == objs[name].imageset_folder
        a   == archive_imageset(FS, loc, name)
    IN  /\ objs[name].live
        /\ SetFS(a.fs)
        /\ objs' = [objs EXCEPT ![name] = Live(a.loc)]
        /\ db' = db
        /\ UNCHANGED <<mirror, apart>>
        /\ last' = Last("archive", name, "", "", <<>>, a.raised, FALSE,
                        PreOf(name, loc), NoScan)

\* ImagesetBatch(config, F, update_type, imagesets, value, append) followed
\* by update_now(); a value outside the vocabulary raises in the constructor
Batch(imagesets, update_type, value, append) ==
    LET v == _validate_imagesets(FS, imagesets, 1,
                                 [n \in DirNames |-> "main"])
        u == update_now(v.fs, v.locs, imagesets, 1, update_type, value,
                        _validate_append(update_type, append), {})
        n == imagesets[1]
    IN  /\ IF value \notin valid_options(update_type)
           THEN /\ UNCHANGED <<loose, main, arch, objs>>
                /\ last' = Last("batch", n, update_type, value, <<>>, TRUE,
                                TRUE, PreOf(n, "main"), NoScan)
           ELSE IF v.raised
           THEN /\ SetFS(v.fs)
                /\ objs' = objs
                /\ last' = Last("batch", n, update_type, value, <<>>, TRUE,
                                FALSE, PreOf(n, "main"), NoScan)
           ELSE /\ SetFS(u.fs)
                /\ objs' = [m \in DirNames |->
                              IF m \in SeqSet(imagesets) THEN Live(u.locs[m])
                              ELSE objs[m]]
                /\ last' = Last("batch", n, update_type, value,
                                IF append THEN <<"append">> ELSE <<>>,
                                n \in u.error_imagesets, FALSE,
                                PreOf(n, "main"), NoScan)
        /\ db' = db
        /\ UNCHANGED <<mirror, apart>>

BatchUpdate(name, inputs) ==
    \E update_type \in DOMAIN inputs, append \in BOOLEAN :
        \E value \in inputs[update_type] :
            Batch(<<name>>, update_type, value, append)

\* sync_imageset_toml_to_db(config, F, name), with os.listdir returning the
\* files S of the folder in one of the orders listdir[S]
TomlToDb(name, listdir) ==
    \E r \in {sync_imageset_toml_to_db(FS, db, name)} :
        /\ SetFS(r.fs)
        /\ db' = r.db
        /\ objs' = objs
        /\ IF r.ok
           THEN \E listing \in listdir[Listed(r.fs.main[name])] :
                    \E m \in {sync_files(Mirror, image_paths, listing)} :
                        /\ m.next_id.imagesetfiles <= MaxId + 1
                        /\ imagesetfiles' = m.imagesetfiles
                        /\ imagesetfile_tags' = m.imagesetfile_tags
                        /\ image_paths' = m.image_paths
                        /\ next_id' = m.next_id
           ELSE UNCHANGED mirror
        /\ UNCHANGED apart
        /\ last' = Last("toml_to_db", name,
                        IF last.op = "toml_to_db" /\ ~last.raised
                        THEN "again" ELSE "",
                        "", <<>>, ~r.ok, FALSE, PreOf(name, "main"), NoScan)

\* sync_imageset_db_to_toml(config, F, name); objects built before the sync
\* are not used after it
DbToToml(name) ==
    LET r == sync_imageset_db_to_toml(FS, db, name)
    IN  /\ SetFS(r.fs)
        /\ db' = db
        /\ UNCHANGED <<mirror, apart>>
        /\ objs' = [objs EXCEPT ![name] = NoObj]
        /\ last' = Last("db_to_toml", name, "", "", <<>>, ~r.ok, FALSE,
                        PreOf(name, "main"), NoScan)

\* the Imageset lifecycle: loads, setters, archiving and batch updates
Next ==
    \E name \in {cat} :
        \/ Load(name)
        \/ SetStatus(name, StatusInputs)
        \/ SetEdits(name, EditsInputs)
        \/ SetNeeds(name, FieldInputs("needs"))
        \/ SetGoodFor(name, FieldInputs("good_for"))
        \/ SetPostedTo(name, FieldInputs("posted_to"))
        \/ Archive(name)
        \/ BatchUpdate(name,
                       [t \in {"status", "edits"} |-> BatchInputs(t)])

Spec == Init /\ [][Next]_vars

\* the setters and batch updates together with both directions of the sync
NextSync ==
    \E name \in {cat} :
        \/ Load(name)
        \/ SetStatus(name, SyncStatusInputs)
        \/ SetEdits(name, SyncEditsInputs)
        \/ SetNeeds(name, SyncFieldInputs("needs"))
        \/ SetGoodFor(name, SyncFieldInputs("good_for"))
        \/ SetPostedTo(name, SyncFieldInputs("posted_to"))
        \/ BatchUpdate(name,
                       [t \in {"edits", "needs"} |-> SyncBatchInputs(t)])
        \/ TomlToDb(name, InNameOrder)
        \/ DbToToml(name)

SpecSync == Init /\ [][NextSync]_vars

---------------------------------------------------------------------------
(* Folder scanning                                                         *)

LooseListing == {f \in loose : Visible(f)}

SubfolderListing == {n \in DirNames : main[n].exists /\ Visible(n)}

\* ImagesetFolder(config, F): folder_scan with some listing order; the
\* objects of the returned map replace the earlier ones
Scan ==
    \E lo \in Orders(LooseListing), so \in Orders(SubfolderListing) :
        \E r \in {folder_scan(FS, lo, so)} :
            /\ SetFS(r.fs)
            /\ objs' = [n \in DirNames |-> IF n \in r.imagesets
                                           THEN Live("main") ELSE NoObj]
            /\ db' = db
            /\ UNCHANGED <<mirror, apart>>
            /\ last' = Last("scan", cat, "", "", <<>>, ~r.ok, FALSE, NoPre,
                            ScanRecord(r))

\* a new image file the operator drops into F after a scan
NewFiles == {cat_v2_png}

\* the operator drops one more file into a folder that was just scanned
AddLooseFile ==
    \E f \in NewFiles \ loose :
        /\ last.op = "scan"
        /\ \A n \in DirNames : f \notin main[n].files
        /\ Cardinality(loose) < MaxLoose
        /\ loose' = loose \cup {f}
        /\ UNCHANGED <<main, arch, objs, db>>
        /\ UNCHANGED <<mirror, apart>>
        /\ last' = Last("add_file", cat, "", "", <<>>, FALSE, FALSE, NoPre,
                        NoScan)

CatDirs ==
    {NoDir, NewDir({}, NoToml), NewDir({cat_txt}, NoToml),
     NewDir({cat_png}, DefaultToml), NewDir({cat_orig_png}, ArchivedToml),
     NewDir({cat_orig_png}, CorruptToml)}

DogDirs ==
    {NoDir, NewDir({dog_orig_png}, ArchivedToml),
     NewDir({dog_orig_png}, CorruptToml)}

\* a folder as the operator can have left it: some loose files, imageset
\* folders with or without images and sidecars, earlier archived folders
InitScan ==
    /\ loose \in {S \in SUBSET LooseFiles : Cardinality(S) <= MaxLoose}
    /\ \E c \in CatDirs, d \in DogDirs :
           main = [n \in DirNames |-> IF n = cat THEN c
                                      ELSE IF n = dog THEN d ELSE NoDir]
    /\ \E oc \in {NoDir, Occupant}, ob \in {NoDir, NewDir({}, DefaultToml)} :
           arch = [n \in DirNames |-> IF n = cat THEN oc
                                      ELSE IF n = cat_b THEN ob ELSE NoDir]
    /\ objs = [n \in DirNames |-> NoObj]
    /\ db = [n \in DirNames |-> NoRow]
    /\ last = NoLast
    /\ MirrorInit
    /\ ApartInit

NextScan == Scan \/ AddLooseFile

SpecScan == InitScan /\ [][NextScan]_vars

---------------------------------------------------------------------------
(* Properties of the Imageset lifecycle                                    *)

\* the sidecar the object of an imageset is bound to
TomlOf(name) == DirAt(FS, objs[name].imageset_folder, name).toml

StatusWrite(value) ==
    last.op = "set" /\ last.field = "status" /\ last.svalue = value

\* C1: an imageset folder whose sidecar status is "archive" is never found
\* directly under F; it lies under F/_archive
C1_ArchivedUnderArchive ==
    \A n \in DirNames :
        main[n].exists /\ main[n].toml.st = "ok"
            => main[n].toml.status /= "archive"

\* C2 as stated: every write of status = "archive" ends with the folder at
\* F/_archive/<name> and the object bound to it
C2_ArchiveAlwaysMoves ==
    StatusWrite("archive") =>
        /\ ~main[last.name].exists
        /\ arch[last.name].exists
        /\ objs[last.name].imageset_folder = "arch"

\* C2 amended: a write of status = "archive" ends with the folder at
\* F/_archive/<name>, holding status "archive", and the object bound to it,
\* unless another entry already has that path; then the setter raises and
\* the folder and the binding stay where they were
C2_ArchiveMovesUnlessTaken ==
    StatusWrite("archive") =>
        IF last.pre.taken /\ last.pre.loc = "main"
        THEN /\ last.raised
             /\ main[last.name].exists
             /\ objs[last.name].imageset_folder = "main"
        ELSE /\ ~main[last.name].exists
             /\ arch[last.name].exists
             /\ arch[last.name].toml.status = "archive"
             /\ objs[last.name].imageset_folder = "arch"

C2_Witness ==
    /\ StatusWrite("archive")
    /\ ~last.raised
    /\ last.pre.loc = "main"
    /\ last.pre.status = "keep"
    /\ objs[cat].imageset_folder = "arch"
    /\ arch[cat].toml.status = "archive"

EditsWrite ==
    last.op = "set" /\ last.field = "edits" /\ ~last.raised

\* C3 as stated: a non-empty valid value written to edits while status is
\* not "edit" leaves status "edit" and edits equal to the value
C3_NonEmptyEditsForceEdit ==
    EditsWrite /\ last.value /= <<>> /\ last.pre.status /= "edit"
        => TomlOf(last.name).status = "edit"
           /\ TomlOf(last.name).edits = last.value

\* C3 amended: a valid value that is non-empty after stripping white space,
\* written to edits while status is not "edit", leaves status "edit" and
\* edits equal to the value
C3_NonBlankEditsForceEdit ==
    EditsWrite /\ IsNonBlank(last.value) /\ last.pre.status /= "edit"
        => TomlOf(last.name).status = "edit"
           /\ TomlOf(last.name).edits = last.value

C3_Witness ==
    /\ EditsWrite
    /\ last.value = <<"creative", "photoshop">>
    /\ last.pre.status = "keep"
    /\ TomlOf(cat).status = "edit"

\* C4 as stated: a status other than "archive" written while edits is
\* non-empty leaves status "edit"
C4_StatusForcedToEdit ==
    /\ last.op = "set" /\ last.field = "status"
    /\ last.svalue /= "archive"
    /\ TomlOf(last.name).edits /= <<>>
    => TomlOf(last.name).status = "edit"

\* C4 amended: a valid status other than "archive" written through the
\* status setter is stored as written, also while edits is non-empty
C4_StatusStoredAsWritten ==
    /\ last.op = "set" /\ last.field = "status"
    /\ ~last.invalid
    /\ last.svalue /= "archive"
    => TomlOf(last.name).status = last.svalue

C4_Witness ==
    /\ StatusWrite("keep")
    /\ ~last.raised
    /\ IsNonBlank(TomlOf(cat).edits)
    /\ last.pre.status = "edit"
    /\ TomlOf(cat).status = "keep"


\* the value handed to a setter has an element outside the vocabulary
OutsideVocabulary(field, svalue, value) ==
    IF field = "status" THEN svalue /= "" /\ svalue \notin valid_status
    ELSE \E x \in Elements(value) : x \notin valid_options(field)

\* C5: a setter given a value with an element outside its vocabulary raises
\* and changes nothing: sidecars, folder locations, object bindings and the
\* database rows are as before the call
C5_InvalidValueChangesNothing ==
    [][ last'.op = "set"
        /\ OutsideVocabulary(last'.field, last'.svalue, last'.value)
        => /\ last'.raised
           /\ loose' = loose /\ main' = main /\ arch' = arch
           /\ objs' = objs /\ db' = db ]_vars

C5_Witness ==
    /\ last.op = "set" /\ last.field = "edits"
    /\ last.value = <<"creative", "bogus">>
    /\ last.raised
    /\ last.pre.status = "keep"
    /\ TomlOf(cat).status = "keep"
    /\ db[cat].present

Occurrences(value, x) ==
    Cardinality({i \in 1..Len(Items(value)) : Items(value)[i] = x})

NoDuplicates(value) == \A x \in Elements(value) : Occurrences(value, x) = 1

SidecarsInVocabulary ==
    \A n \in DirNames : \A d \in {main[n], arch[n]} :
        /\ d.toml.status \in valid_status \cup {""}
        /\ \A f \in Fields : Elements(d.toml[f]) \subseteq valid_options(f)

\* C6 as stated: status is in the vocabulary or empty, every element of
\* edits, needs, good_for and posted_to is in its vocabulary and none
\* occurs twice
C6_VocabularyAndNoDuplicates ==
    /\ SidecarsInVocabulary
    /\ \A n \in DirNames : \A f \in Fields : NoDuplicates(main[n].toml[f])

BatchAppend ==
    last.op = "batch" /\ last.value = <<"append">> /\ ~last.raised

\* C6 amended: status is in the vocabulary or empty and every element of
\* edits, needs, good_for and posted_to is in its vocabulary; a batch append
\* adds its value once when it was absent and nothing when it was present
\* (a repeated element is stored only when a setter is given a value that
\* repeats it)
C6_VocabularyAndAppendOnce ==
    /\ []SidecarsInVocabulary
    /\ [][ BatchAppend'
           => LET n   == last'.name
                  f   == last'.field
                  v   == last'.svalue
                  old == Occurrences(main[n].toml[f], v)
              IN  Occurrences(main'[n].toml[f], v)
                      = IF old = 0 THEN 1 ELSE old ]_vars

C6_Witness ==
    /\ BatchAppend
    /\ last.field = "edits" /\ last.svalue = "creative"
    /\ TomlOf(cat).edits = <<"creative", "creative">>
    /\ db[cat].present /\ db[cat].edits = <<"creative">>

---------------------------------------------------------------------------
(* Properties of the folder scanner                                        *)

Scanned == last.op = "scan"

\* C7: a scan that directly follows a scan moves no file, creates, archives
\* and relocates no folder, renames no file and returns the same names
C7_SecondScanChangesNothing ==
    [][ Scanned /\ Scanned'
        => /\ last'.scan.moved = {} /\ last'.scan.created = {}
           /\ last'.scan.archived = {} /\ last'.scan.relocated = {}
           /\ last'.scan.renamed = {}
           /\ last'.scan.imagesets = last.scan.imagesets
           /\ loose' = loose /\ main' = main /\ arch' = arch ]_vars

\* the file, or the name the orig tag gives it, lies in the folder <name>
\* under F or under F/_archive
LivesIn(f, name) ==
    \E d \in {main[name], arch[name]} :
        f \in d.files \/ TaggedName(f, "orig") \in d.files

\* C8: after a scan no image file the scan listed is left in F, and each
\* lies in the folder named by its tag-stripped base name
C8_LooseImagesRouted ==
    Scanned =>
        \A f \in last.scan.listed :
            /\ f \notin loose
            /\ LivesIn(f, get_imageset_from_filename(f, FileTags).imageset_name)

C10_FailureSkipsOneFolder ==
    Scanned =>
        \A n \in (last.scan.candidates \ last.scan.abandoned)
                    \ last.scan.failed :
            /\ n \in last.scan.processed
            /\ main[n].exists /\ main[n].toml.status /= "archive"
                   => n \in last.scan.imagesets

---------------------------------------------------------------------------
(* The orig_image property on the files dict of an Imageset object         *)

\* an orig_image that tags the first image when it cannot tell the original
orig_image_path_tagging_first(d, files) ==
    LET imgs     == SelectSeq(files, IsImg)
        origs    == SelectSeq(imgs, LAMBDA f : HasTag(f, "orig"))
        single   == SelectSeq(origs, LAMBDA f : FileTagsOf(f) = <<"orig">>)
        Tagging(f) ==
            LET a == add_tag_to_file(d, f, "orig")
            IN  [raised |-> a.raised, dir |-> a.dir, renamed |-> ~a.raised,
                 path |-> IF a.raised THEN <<>> ELSE TaggedName(f, "orig")]
        Found(f) == [raised |-> FALSE, dir |-> d, renamed |-> FALSE,
                     path |-> f]
    IN  IF imgs = <<>>
        THEN [raised |-> TRUE, dir |-> d, renamed |-> FALSE, path |-> <<>>]
        ELSE IF Len(origs) = 1 THEN Found(origs[1])
        ELSE IF Len(origs) > 1
        THEN IF Len(single) = 1 THEN Found(single[1]) ELSE Found(origs[1])
        ELSE Tagging(imgs[1])

\* orig_image on a files dict whose keys are in the order `files`: the
\* path it returns, whether it raised, and the folder it leaves
orig_image_path(d, files) ==
    LET imgs     == SelectSeq(files, IsImg)
        origs    == SelectSeq(imgs, LAMBDA f : HasTag(f, "orig"))
        single   == SelectSeq(origs, LAMBDA f : FileTagsOf(f) = <<"orig">>)
        untagged == SelectSeq(imgs, LAMBDA f : FileTagsOf(f) = <<>>)
        Tagging(f) ==
            LET a == add_tag_to_file(d, f, "orig")
            IN  [raised |-> a.raised, dir |-> a.dir, renamed |-> ~a.raised,
                 path |-> IF a.raised THEN <<>> ELSE TaggedName(f, "orig")]
        Found(f) == [raised |-> FALSE, dir |-> d, renamed |-> FALSE,
                     path |-> f]
    IN  IF imgs = <<>>
        THEN [raised |-> TRUE, dir |-> d, renamed |-> FALSE, path |-> <<>>]
        ELSE IF Len(origs) = 1 THEN Found(origs[1])
        ELSE IF Len(origs) > 1
        THEN IF Len(single) = 1 THEN Found(single[1]) ELSE Found(origs[1])
        ELSE IF Len(imgs) = 1 THEN Tagging(imgs[1])
        ELSE IF Len(untagged) = 1 THEN Tagging(untagged[1])
        ELSE Found(imgs[1])

\* files the folder of an Imageset object can hold: untagged images, images
\* with the orig tag and with other tags
OrigFiles ==
    {cat_png, cat0_png, cat_v2_png, cat_orig_png, cat_orig_v2_png}

\* the most files an imageset folder holds next to its sidecar
MaxFiles == 3

\* a files dict that add_tag_to_file does not rebuild
files_never_rebuilt(r, files) == {files}

\* the files dict after an access: add_tag_to_file rebuilds it from a new
\* listing of the folder, otherwise it stays as it was
_get_imageset_files(r, files) ==
    IF r.renamed THEN Orders(Listed(r.dir)) ELSE {files}

Held(files, r, renamed) ==
    [live |-> ~r.raised, files |-> files, path |-> r.path,
     raised |-> r.raised, renamed |-> renamed]

\* Imageset(config, F, name) up to and including its own orig_image access,
\* for a folder whose sidecar does not say "archive"
Build(name) ==
    \E t \in {ImagesetTomlInit(main[name])} :
        /\ main[name].exists
        /\ t.dir.toml.status /= "archive"
        /\ IF t.raised
           THEN /\ held' = NoHeld
                /\ main' = main
                /\ last' = Last("build", name, "", "", <<>>, TRUE, FALSE,
                                NoPre, NoScan)
           ELSE \E files \in Orders(Listed(t.dir)) :
                    \E r \in {orig_image_path(t.dir, files)} :
                        \E listing \in _get_imageset_files(r, files) :
                            /\ main' = [main EXCEPT ![name] = r.dir]
                            /\ held' = Held(listing, r, r.renamed)
                            /\ last' = Last("build", name, "", "", r.path,
                                            r.raised, FALSE, NoPre, NoScan)
        /\ UNCHANGED <<loose, arch, objs, db, mirror>>
        /\ UNCHANGED <<parsed, doc, registry, tables>>

\* imageset.orig_image read once more on the held object
OrigImage(name) ==
    /\ held.live
    /\ \E r \in {orig_image_path(main[name], held.files)} :
           \E listing \in _get_imageset_files(r, held.files) :
               /\ main' = [main EXCEPT ![name] = r.dir]
               /\ held' = [Held(listing, r, held.renamed \/ r.renamed)
                              EXCEPT !.live = TRUE]
               /\ last' = Last("orig_image", name, "", "", r.path, r.raised,
                               FALSE, NoPre, NoScan)
    /\ UNCHANGED <<loose, arch, objs, db, mirror>>
    /\ UNCHANGED <<parsed, doc, registry, tables>>

\* another program puts a file into the imageset folder, which holds at
\* most `most` files
PutFile(name, f, most) ==
    /\ main[name].exists
    /\ f \notin main[name].files
    /\ Cardinality(main[name].files) < most
    /\ main' = [main EXCEPT ![name].files = @ \cup {f}]
    /\ last' = Last("put_file", name, "", "", <<>>, FALSE, FALSE, NoPre,
                    NoScan)
    /\ UNCHANGED <<loose, arch, objs, db, mirror, apart>>

\* another program removes a file from the imageset folder
RemoveFile(name, f) ==
    /\ main[name].exists
    /\ f \in main[name].files
    /\ main' = [main EXCEPT ![name].files = @ \ {f}]
    /\ last' = Last("remove_file", name, "", "", <<>>, FALSE, FALSE, NoPre,
                    NoScan)
    /\ UNCHANGED <<loose, arch, objs, db, mirror, apart>>

\* one imageset folder with up to MaxFiles files, with or without a sidecar
InitOrig ==
    /\ loose = {}
    /\ \E files \in SUBSET OrigFiles, t \in {NoToml, DefaultToml} :
           /\ Cardinality(files) <= MaxFiles
           /\ main = [n \in DirNames |-> IF n = cat THEN NewDir(files, t)
                                         ELSE NoDir]
    /\ arch = [n \in DirNames |-> NoDir]
    /\ objs = [n \in DirNames |-> NoObj]
    /\ db = [n \in DirNames |-> NoRow]
    /\ last = NoLast
    /\ MirrorInit
    /\ ApartInit

NextOrig ==
    \/ Build(cat)
    \/ OrigImage(cat)
    \/ \E f \in OrigFiles : PutFile(cat, f, MaxFiles)
    \/ \E f \in OrigFiles : RemoveFile(cat, f)

\* an Imageset object whose orig_image is read again and again while the
\* folder changes under it
SpecOrig == InitOrig /\ [][NextOrig]_vars

\* C11: a further access of orig_image on an object returns the path the
\* access before it returned and renames no file, and no file name carries
\* the orig tag twice
C11_OrigImageIdempotent ==
    [][last'.op = "orig_image" =>
          /\ main' = main
          /\ held'.raised = held.raised
          /\ held'.path = held.path
          /\ \A f \in main'[cat].files :
                 ~Contains(f, <<"_", "orig", "_", "orig">>)]_vars

\* reached: orig_image is read again on an object whose first access has
\* renamed the untagged image
C11_Witness ==
    /\ last.op = "orig_image"
    /\ held.renamed
    /\ held.path = TaggedName(cat_png, "orig")
    /\ held.path \in main[cat].files

\* the files dict of the held object lists the folder as it is
Fresh == held.live /\ SeqSet(held.files) = Listed(main[cat])

\* C24: an orig_image access, in the constructor or on an object whose
\* files dict lists the folder as it is, renames a file only when no image
\* of the folder carries the orig tag and the folder has exactly one image
\* or exactly one image without any tag; in every other case with an image
\* it returns the path of a file of the folder and renames nothing
C24_RenamesOnlyTheOriginal ==
    [][(last'.op = "build" \/ (last'.op = "orig_image" /\ Fresh))
          => LET imgs     == image_files(main[cat].files)
                 origs    == {f \in imgs : HasTag(f, "orig")}
                 untagged == {f \in imgs : FileTagsOf(f) = <<>>}
                 may      == /\ origs = {}
                             /\ \/ Cardinality(imgs) = 1
                                \/ Cardinality(untagged) = 1
             IN  /\ main'[cat].files /= main[cat].files => may
                 /\ (~may /\ imgs /= {})
                       => /\ ~last'.raised
                          /\ last'.value \in main[cat].files
                          /\ main'[cat].files = main[cat].files]_vars

\* reached: the constructor found two images without the orig tag, one of
\* them without any tag, and renamed that one
C24_Witness ==
    /\ last.op = "build"
    /\ held.renamed
    /\ held.path = TaggedName(cat_png, "orig")
    /\ main[cat].files = {TaggedName(cat_png, "orig"), cat_v2_png}

---------------------------------------------------------------------------
(* The database mirror of a folder that changes between syncs              *)

\* one imageset folder with up to MaxFiles files and an empty database
InitMirror ==
    /\ loose = {}
    /\ \E files \in SUBSET MirrorFiles, t \in {NoToml, DefaultToml} :
           /\ Cardinality(files) <= MaxKept
           /\ main = [n \in DirNames |-> IF n = cat THEN NewDir(files, t)
                                         ELSE NoDir]
    /\ arch = [n \in DirNames |-> NoDir]
    /\ objs = [n \in DirNames |-> NoObj]
    /\ db = [n \in DirNames |-> NoRow]
    /\ last = NoLast
    /\ MirrorInit
    /\ ApartInit

NextMirror ==
    \/ TomlToDb(cat, InAnyOrder)
    \/ \E f \in MirrorFiles : PutFile(cat, f, MaxKept)
    \/ \E f \in MirrorFiles : RemoveFile(cat, f)

\* syncs of one imageset while files are put into and removed from its
\* folder
SpecMirror == InitMirror /\ [][NextMirror]_vars

\* the last step was a sync that completed
Synced == last.op = "toml_to_db" /\ ~last.raised

C13_RowsMatchFolder ==
    Synced =>
        /\ {r.filename : r \in imagesetfiles} = Listed(main[cat])
        /\ Cardinality(imagesetfiles) = Cardinality(Listed(main[cat]))
        /\ \A r \in imagesetfiles :
               get_tags_by_file_id(imagesetfile_tags, r.id)
                   = SeqSet(FileTagsOf(r.filename))
        /\ \A e \in DOMAIN imagesetfile_tags :
               \E r \in imagesetfiles : r.id = e.imagesetfile_id

\* reached: a sync after files with tags were removed from the folder and
\* others were put into it since the sync before
C13_Witness ==
    /\ Synced
    /\ next_id.imagesetfiles > 5
    /\ Cardinality(imagesetfiles) = 3
    /\ \E r \in imagesetfiles :
           r.id >= 4 /\ Len(FileTagsOf(r.filename)) = 2

\* Imageset.cover_image on a files dict whose keys are in the order `files`
cover_image(files) ==
    LET imgs  == SelectSeq(files, IsImg)
        thumb == SelectSeq(imgs, LAMBDA f : HasTag(f, "thumb"))
        orig  == SelectSeq(imgs, LAMBDA f :
                     ~HasTag(f, "thumb") /\ HasTag(f, "orig"))
    IN  IF thumb /= <<>> THEN thumb[1]
        ELSE IF orig /= <<>> THEN orig[1]
        ELSE IF imgs /= <<>> THEN imgs[1]
        ELSE <<>>

\* what the cover rule selects for a folder, over the listing orders
CoverChoices(d) == {cover_image(o) : o \in Orders(Listed(d))}

\* what the orig rule selects for a folder, over the listing orders: the
\* file it returns, under its name before or after the tagging, and no file
\* when the folder has no image
OrigChoices(d) ==
    {orig_image_path(d, o).path : o \in Orders(Listed(d))}
        \cup OrigToTag(d.files)

\* C14: after a sync the imagesets row holds the cover image and the orig
\* image that the rules of Imageset select for the files of the folder
C14_PathsFollowImagesetRules ==
    Synced =>
        \A row \in image_paths :
            /\ row.cover_image_path \in CoverChoices(main[cat])
            /\ row.orig_image_path \in OrigChoices(main[cat])

---------------------------------------------------------------------------
(* ImagesetToml: set and get on the sidecar document                       *)

\* TOML values: a string, an integer and a boolean with their str(), and a
\* table with its entries in insertion order
StrVal(x)  == [t |-> "str", s |-> x, items |-> <<>>]
IntVal(x)  == [t |-> "int", s |-> x, items |-> <<>>]
BoolVal(x) == [t |-> "bool", s |-> x, items |-> <<>>]
Table(items) == [t |-> "table", s |-> "{}", items |-> items]

Entry(key, value) == [key |-> key, value |-> value]

\* str(value)
str(value) == StrVal(value.s)

\* a lookup that tells the casings apart
_find_key_exact(data, key) ==
    IF \E i \in 1..Len(data) : data[i].key = key
    THEN CHOOSE i \in 1..Len(data) :
             /\ data[i].key = key
             /\ \A j \in 1..(i - 1) : data[j].key /= key
    ELSE 0

\* _find_key_case_insensitive: the position of the first key that equals
\* `key` in lower case, 0 for None
_find_key_case_insensitive(data, key) ==
    IF \E i \in 1..Len(data) : Lower(data[i].key) = Lower(key)
    THEN CHOOSE i \in 1..Len(data) :
             /\ Lower(data[i].key) = Lower(key)
             /\ \A j \in 1..(i - 1) : Lower(data[j].key) /= Lower(key)
    ELSE 0

\* data[target_key] = value, for the existing key at position i or a new key
Assign(data, i, key, value) ==
    IF i = 0 THEN Append(data, Entry(key, value))
    ELSE [data EXCEPT ![i].value = value]

\* ImagesetToml.set(section, key, value) on the document `data`
ImagesetToml_set(data, section, key, value) ==
    LET i == _find_key_case_insensitive(data, section)
        d == IF i = 0 THEN Append(data, Entry(section, Table(<<>>)))
             ELSE data
        n == IF i = 0 THEN Len(d) ELSE i
    IN  IF section /= "" /\ key = ""
        THEN IF value.t /= "table" THEN [raised |-> TRUE, data |-> data]
             ELSE [raised |-> FALSE, data |-> Assign(data, i, section, value)]
        ELSE IF section /= "" /\ key /= ""
        THEN IF value.t = "table" THEN [raised |-> TRUE, data |-> data]
             ELSE IF d[n].value.t /= "table"
             THEN [raised |-> TRUE, data |-> data]
             ELSE [raised |-> FALSE,
                   data |-> [d EXCEPT ![n].value.items =
                               Assign(@, _find_key_case_insensitive(@, key),
                                      key, value)]]
        ELSE IF key /= ""
        THEN [raised |-> FALSE,
              data |-> Assign(data, _find_key_case_insensitive(data, key),
                              key, value)]
        ELSE [raised |-> TRUE, data |-> data]

\* ImagesetToml.get(section, key) on the document `data`
ImagesetToml_get(data, section, key) ==
    LET i == _find_key_case_insensitive(data, section)
        k == _find_key_case_insensitive(data, key)
    IN  IF section = "" /\ key /= ""
        THEN IF k /= 0 THEN str(data[k].value) ELSE StrVal("")
        ELSE IF section /= "" /\ key /= ""
        THEN IF i = 0 THEN StrVal("")
             ELSE IF data[i].value.t /= "table" THEN StrVal("")
             ELSE IF _find_key_case_insensitive(data[i].value.items, key) = 0
             THEN StrVal("")
             ELSE str(data[i].value.items[
                      _find_key_case_insensitive(data[i].value.items, key)]
                          .value)
        ELSE IF section /= ""
        THEN IF i /= 0 THEN data[i].value ELSE Table(<<>>)
        ELSE Table(data)

\* the document _validate_toml_file creates
DefaultDoc ==
    <<Entry("imageset", StrVal("cat")), Entry("status", StrVal("new")),
      Entry("edits", StrVal("")), Entry("needs", StrVal(""))>>

\* a document loaded from a file that spells the key "Status": the required
\* key "status" is added after it
LoadedDoc ==
    <<Entry("Status", StrVal("keep")), Entry("imageset", StrVal("cat")),
      Entry("status", StrVal("new")), Entry("edits", StrVal("")),
      Entry("needs", StrVal("")), Entry("source", StrVal("unknown"))>>

SectionNames == {"", "biz", "Biz"}
KeyNames     == {"", "status", "Status"}

\* values given to set: a string, an integer, a boolean, a table, and a
\* table (a dict) with two keys that differ in case only
SetValues ==
    {StrVal("keep"), IntVal("5"), BoolVal("True"),
     Table(<<Entry("status", StrVal("rb"))>>),
     Table(<<Entry("status", StrVal("rb")), Entry("Status", StrVal("etsy"))>>)}

\* toml.set(section, key, value)
TomlSet(section, key, value) ==
    \E r \in {ImagesetToml_set(doc.data, section, key, value)} :
        /\ doc' = [data |-> r.data,
                   wrote |-> <<[section |-> section, key |-> key,
                                value |-> value, raised |-> r.raised]>>,
                   read |-> <<>>]
        /\ UNCHANGED <<loose, main, arch, objs, db, last, mirror>>
        /\ UNCHANGED <<parsed, registry, tables, held>>

\* toml.get(section, key) with the names of the last set in some casing
TomlGet(section, key) ==
    /\ doc.wrote /= <<>>
    /\ Lower(section) = Lower(doc.wrote[1].section)
    /\ Lower(key) = Lower(doc.wrote[1].key)
    /\ doc' = [doc EXCEPT !.read =
                 <<[section |-> section, key |-> key,
                    value |-> ImagesetToml_get(doc.data, section, key)]>>]
    /\ UNCHANGED <<loose, main, arch, objs, db, last, mirror>>
    /\ UNCHANGED <<parsed, registry, tables, held>>

InitDoc ==
    /\ loose = {}
    /\ main = [n \in DirNames |-> IF n = cat THEN NewDir({}, DefaultToml)
                                  ELSE NoDir]
    /\ arch = [n \in DirNames |-> NoDir]
    /\ objs = [n \in DirNames |-> NoObj]
    /\ db = [n \in DirNames |-> NoRow]
    /\ last = NoLast
    /\ MirrorInit
    /\ parsed = <<>> /\ registry = NoRegistry /\ tables = NoTables
    /\ held = NoHeld
    /\ \E data \in {DefaultDoc, LoadedDoc} : doc = [NoDoc EXCEPT !.data = data]

NextDoc ==
    \E section \in SectionNames, key \in KeyNames :
        \/ \E value \in SetValues : TomlSet(section, key, value)
        \/ TomlGet(section, key)

\* an ImagesetToml object that is written and read
SpecDoc == InitDoc /\ [][NextDoc]_vars

\* a get that follows a set that was accepted
ReadBack == doc.read /= <<>> /\ ~doc.wrote[1].raised

\* C15: a get after an accepted set, with the same section and key in any
\* casing, returns a value equal to the one written
C15_GetReturnsWritten ==
    ReadBack => doc.read[1].value = doc.wrote[1].value

\* C15 as the code has it: the value of a key is returned as its str(), a
\* section is returned as the table that was written
C15_GetReturnsStrOfWritten ==
    ReadBack =>
        doc.read[1].value = IF doc.wrote[1].key /= ""
                            THEN str(doc.wrote[1].value)
                            ELSE doc.wrote[1].value

\* reached: an integer written to a key of a section is read back with the
\* names in another casing
C15_Witness ==
    /\ ReadBack
    /\ doc.wrote[1].value.t = "int"
    /\ doc.wrote[1].section = "biz" /\ doc.read[1].section = "Biz"
    /\ doc.wrote[1].key = "Status" /\ doc.read[1].key = "status"

---------------------------------------------------------------------------
(* get_imageset_from_filename over file names and tag vocabularies         *)

\* the longest tag vocabulary given to the parser
MaxTags == 2

\* base names with no tag, one tag, two tags, a tag in the middle, a tag
\* followed by more characters, and a name that starts with a dot
ParseBases ==
    {<<"cat">>, <<"cat", "_", "v2">>, <<"cat", "_", "orig", "_", "v2">>,
     <<"cat", "_", "v2", "_", "b">>, <<"cat", "_", "v2", "2">>,
     <<".", "cat", "_", "orig">>}

\* no extension, an image extension, an extension that spells a tag, and a
\* second extension
ParseExts ==
    {<<>>, <<".", "png">>, <<".", "x", "_", "v2">>,
     <<".", "tar", "_", "orig", ".", "gz">>}

ParseNames == {b \o e : b \in ParseBases, e \in ParseExts}

\* ordered tag vocabularies of up to MaxTags tags, repeated tags included
Vocabularies ==
    {<<>>} \cup SeqsUpTo({"orig", "v2", "thumb"}, MaxTags)

\* get_imageset_from_filename(file_name, file_tags)
Parse(file_name, file_tags) ==
    /\ parsed' = <<[file_name |-> file_name, file_tags |-> file_tags,
                    result |-> get_imageset_from_filename(file_name,
                                                          file_tags)]>>
    /\ UNCHANGED <<loose, main, arch, objs, db, last, mirror>>
    /\ UNCHANGED <<doc, registry, tables, held>>

InitParse ==
    /\ loose = {}
    /\ main = [n \in DirNames |-> NoDir]
    /\ arch = [n \in DirNames |-> NoDir]
    /\ objs = [n \in DirNames |-> NoObj]
    /\ db = [n \in DirNames |-> NoRow]
    /\ last = NoLast
    /\ MirrorInit
    /\ ApartInit

NextParse ==
    \E file_name \in ParseNames, file_tags \in Vocabularies :
        Parse(file_name, file_tags)

\* the parser called again and again
SpecParse == InitParse /\ [][NextParse]_vars

\* C16: a call returns the extension of its file name, the same extension
\* as the call before it when the file name is the same, whatever the
\* vocabulary, and the same result when the vocabulary is the same too
C16_ExtensionKept ==
    [][parsed' /= <<>> =>
          /\ parsed'[1].result.ext = splitext(parsed'[1].file_name).ext
          /\ parsed'[1].result.imageset_name \o parsed'[1].result.ext
                 = StripTags(splitext(parsed'[1].file_name).base,
                             parsed'[1].file_tags, 1, <<>>).base
                       \o splitext(parsed'[1].file_name).ext
          /\ (parsed /= <<>> /\ parsed'[1].file_name = parsed[1].file_name)
                 => /\ parsed'[1].result.ext = parsed[1].result.ext
                    /\ parsed'[1].file_tags = parsed[1].file_tags
                           => parsed'[1].result = parsed[1].result]_vars

\* reached: two tags are stripped from a name whose extension spells a tag
C16_Witness ==
    /\ parsed /= <<>>
    /\ Len(parsed[1].result.tags) = 2
    /\ parsed[1].result.imageset_name = <<"cat">>
    /\ parsed[1].result.ext = <<".", "x", "_", "v2">>

---------------------------------------------------------------------------
(* Batch append                                                            *)

\* C17: a batch append of a value that is not an element of the field
\* leaves the elements of the field in their order followed by the value; a
\* batch append of a value that is an element leaves the field as it was
C17_AppendKeepsOrder ==
    [][BatchAppend' /\ last'.field /= "status" =>
          main'[last'.name].toml[last'.field]
              = IF last'.svalue \in Elements(main[last'.name]
                                                 .toml[last'.field])
                THEN main[last'.name].toml[last'.field]
                ELSE Append(Items(main[last'.name].toml[last'.field]),
                            last'.svalue)]_vars

\* reached: "photoshop" appended to edits "creative"
C17_Witness ==
    /\ BatchAppend
    /\ last.field = "edits" /\ last.svalue = "photoshop"
    /\ TomlOf(cat).edits = <<"creative", "photoshop">>

---------------------------------------------------------------------------
(* Folders: the registry of catalogued folders in memory, in folders.toml  *)
(* and in the folders table                                                *)

FolderNames == {"A", "B"}

\* the full paths a folder name can stand for
FolderPaths == {<<"x">>, <<"y">>}

\* no folder registered
NoFolders == [n \in FolderNames |-> <<>>]

Mappings == [FolderNames -> FolderPaths \cup {<<>>}]

\* folders.toml holding a mapping, and folders.toml after a write that
\* failed once the file was opened for writing
FileOf(folders) == [readable |-> TRUE, folders |-> folders]
TornFile == [readable |-> FALSE, folders |-> NoFolders]

\* how a write of folders.toml can end: written, refused before the file is
\* opened, or failed after it was truncated
FileWrites == {"ok", "refused", "torn"}

\* _update_toml: the file after the write and the value returned
_update_toml(r, folders, write) ==
    [ok   |-> write = "ok",
     file |-> IF write = "ok" THEN FileOf(folders)
              ELSE IF write = "torn" THEN TornFile
              ELSE r.file]

\* _sync_folder_to_db: create the row or update its path; a failure of the
\* database is logged and the table stays as it was
_sync_folder_to_db(table, folder_name, folder_path, db_ok) ==
    IF db_ok THEN [table EXCEPT ![folder_name] = folder_path] ELSE table

\* _sync_folder_deletion_to_db: delete the row when it exists
_sync_folder_deletion_to_db(table, folder_name, db_ok) ==
    IF db_ok THEN [table EXCEPT ![folder_name] = <<>>] ELSE table

\* Folders.add(folder_full_path) for a path with basename folder_name
FoldersAdd(folder_name, folder_path, exists, write, db_ok) ==
    /\ IF registry.folders[folder_name] /= <<>> \/ ~exists
       THEN registry' = [registry EXCEPT
                !.call = [op |-> "add", name |-> folder_name, ok |-> FALSE]]
       ELSE \E u \in {_update_toml(registry,
                          [registry.folders EXCEPT
                              ![folder_name] = folder_path], write)} :
                registry' =
                    [folders |-> IF u.ok
                                 THEN [registry.folders EXCEPT
                                          ![folder_name] = folder_path]
                                 ELSE registry.folders,
                     file    |-> u.file,
                     table   |-> IF u.ok
                                 THEN _sync_folder_to_db(registry.table,
                                          folder_name, folder_path, db_ok)
                                 ELSE registry.table,
                     call    |-> [op |-> "add", name |-> folder_name,
                                  ok |-> u.ok]]
    /\ UNCHANGED <<loose, main, arch, objs, db, last, mirror>>
    /\ UNCHANGED <<parsed, doc, tables, held>>

\* Folders.delete(folder_name)
FoldersDelete(folder_name, write, db_ok) ==
    /\ IF registry.folders[folder_name] = <<>>
       THEN registry' = [registry EXCEPT
                !.call = [op |-> "delete", name |-> folder_name,
                          ok |-> FALSE]]
       ELSE \E u \in {_update_toml(registry,
                          [registry.folders EXCEPT ![folder_name] = <<>>],
                          write)} :
                registry' =
                    [folders |-> IF u.ok
                                 THEN [registry.folders EXCEPT
                                          ![folder_name] = <<>>]
                                 ELSE registry.folders,
                     file    |-> u.file,
                     table   |-> IF u.ok
                                 THEN _sync_folder_deletion_to_db(
                                          registry.table, folder_name, db_ok)
                                 ELSE registry.table,
                     call    |-> [op |-> "delete", name |-> folder_name,
                                  ok |-> u.ok]]
    /\ UNCHANGED <<loose, main, arch, objs, db, last, mirror>>
    /\ UNCHANGED <<parsed, doc, tables, held>>

\* a registry whose three views hold the same mapping
InitFolders ==
    /\ loose = {}
    /\ main = [n \in DirNames |-> NoDir]
    /\ arch = [n \in DirNames |-> NoDir]
    /\ objs = [n \in DirNames |-> NoObj]
    /\ db = [n \in DirNames |-> NoRow]
    /\ last = NoLast
    /\ MirrorInit
    /\ parsed = <<>> /\ doc = NoDoc /\ tables = NoTables /\ held = NoHeld
    /\ \E m \in Mappings :
           registry = [folders |-> m, file |-> FileOf(m), table |-> m,
                       call |-> [op |-> "init", name |-> "A", ok |-> TRUE]]

NextFolders ==
    \E folder_name \in FolderNames, write \in FileWrites, db_ok \in BOOLEAN :
        \/ \E folder_path \in FolderPaths, exists \in BOOLEAN :
               FoldersAdd(folder_name, folder_path, exists, write, db_ok)
        \/ FoldersDelete(folder_name, write, db_ok)

\* folders added to and deleted from the registry while writes of the file
\* and of the table can fail
SpecFolders == InitFolders /\ [][NextFolders]_vars

\* the memory, the file and the table hold the same mapping
Agree(r) ==
    r.file.readable /\ r.file.folders = r.folders /\ r.table = r.folders

\* C18: an add or delete on a registry whose three views agree either
\* reports failure and leaves the memory, the file and the table as they
\* were, or reports success and leaves the three in agreement
C18_AddDeleteAtomic ==
    [][Agree(registry) =>
          IF registry'.call.ok
          THEN Agree(registry')
          ELSE /\ registry'.folders = registry.folders
               /\ registry'.file = registry.file
               /\ registry'.table = registry.table]_vars

---------------------------------------------------------------------------
(* The tables of the database and their foreign keys                       *)

\* the largest id a table hands out
MaxRows == 2

\* FOREIGN KEY ... REFERENCES: the table a row's foreign key points into
References(t) ==
    CASE t = "imagesets" -> "folders"
      [] t = "imagesetfiles" -> "imagesets"
      [] t = "imageset_sections" -> "imagesets"
      [] t = "imagesetfile_tags" -> "imagesetfiles"
      [] OTHER -> ""

Row(t, id, parent) == [table |-> t, id |-> id, parent |-> parent]

\* the rows whose foreign key points at one of the rows S
Children(rows, S) ==
    {r \in rows : \E p \in S : References(r.table) = p.table
                               /\ r.parent = p.id}

\* a delete on a connection that does not enforce the foreign keys
DeleteOnly(rows, S) == rows \ S

\* DELETE with ON DELETE CASCADE on every foreign key: the rows S, their
\* children, their children's children and the tags of those
DeleteCascade(rows, S) ==
    rows \ (S \cup Children(rows, S)
              \cup Children(rows, Children(rows, S))
              \cup Children(rows, Children(rows, Children(rows, S))))

\* <Table>.create: INSERT on a connection with PRAGMA foreign_keys = ON; a
\* foreign key without its row raises and no row is stored
Insert(t, parent) ==
    /\ tables.next[t] <= MaxRows
    /\ IF t /= "folders" /\ ~\E p \in tables.rows :
                                 p.table = References(t) /\ p.id = parent
       THEN tables' = [tables EXCEPT
                !.call = [op |-> "refused", table |-> t, id |-> 0,
                          rows |-> 0]]
       ELSE tables' = [rows |-> tables.rows
                                  \cup {Row(t, tables.next[t],
                                            IF t = "folders" THEN 0
                                            ELSE parent)},
                       next |-> [tables.next EXCEPT ![t] = @ + 1],
                       call |-> [op |-> "insert", table |-> t,
                                 id |-> tables.next[t], rows |-> 1]]
    /\ UNCHANGED <<loose, main, arch, objs, db, last, mirror>>
    /\ UNCHANGED <<parsed, doc, registry, held>>

\* <Table>.delete(id): DELETE ... WHERE id = ?
Delete(t, id) ==
    /\ \E after \in {DeleteCascade(tables.rows,
                        {r \in tables.rows : r.table = t /\ r.id = id})} :
           tables' = [tables EXCEPT
               !.rows = after,
               !.call = [op |-> "delete", table |-> t, id |-> id,
                         rows |-> Cardinality(tables.rows \ after)]]
    /\ UNCHANGED <<loose, main, arch, objs, db, last, mirror>>
    /\ UNCHANGED <<parsed, doc, registry, held>>

InitTables ==
    /\ loose = {}
    /\ main = [n \in DirNames |-> NoDir]
    /\ arch = [n \in DirNames |-> NoDir]
    /\ objs = [n \in DirNames |-> NoObj]
    /\ db = [n \in DirNames |-> NoRow]
    /\ last = NoLast
    /\ MirrorInit
    /\ ApartInit

NextTables ==
    \E t \in TableNames, id \in 1..MaxRows :
        \/ Insert(t, id)
        \/ Delete(t, id)

\* rows created in and deleted from the five tables
SpecTables == InitTables /\ [][NextTables]_vars

\* every foreign key of a row points at a row of the referenced table
ForeignKeysHold(rows) ==
    \A r \in rows :
        r.table /= "folders" =>
            \E p \in rows : p.table = References(r.table) /\ p.id = r.parent

\* the rows that hang on the folder with this id, the folder included
Under(rows, id) ==
    LET imagesets == {r \in rows : r.table = "imagesets" /\ r.parent = id}
        below     == {r \in rows :
                         /\ r.table \in {"imagesetfiles", "imageset_sections"}
                         /\ \E p \in imagesets : r.parent = p.id}
        tags      == {r \in rows :
                         /\ r.table = "imagesetfile_tags"
                         /\ \E p \in below : p.table = "imagesetfiles"
                                             /\ r.parent = p.id}
    IN  {r \in rows : r.table = "folders" /\ r.id = id}
            \cup imagesets \cup below \cup tags

\* C19: no row references a missing row, and the delete of a folder removes
\* the folder with its imagesets and their files, sections and tags, and no
\* other row
C19_ReferentialIntegrity ==
    /\ []ForeignKeysHold(tables.rows)
    /\ [][(tables'.call.op = "delete" /\ tables'.call.table = "folders")
             => tables'.rows
                  = tables.rows \ Under(tables.rows, tables'.call.id)]_vars

\* reached: the delete of a folder has removed its imageset together with a
\* file, a section and a tag
C19_Witness ==
    /\ tables.call.op = "delete"
    /\ tables.call.table = "folders"
    /\ tables.call.rows = 5
    /\ tables.rows /= {}

---------------------------------------------------------------------------
(* Loading the sidecar file                                                *)

\* the basename of the imageset folder
imageset_name == "cat"

\* the encodings _validate_toml_file tries after a UnicodeDecodeError
encodings_to_try == <<"utf-8", "latin-1", "cp1252", "iso-8859-1">>

\* a document without a key
EmptyData == [k \in {} |-> ""]

\* the default data of a new sidecar
DefaultData ==
    [k \in {"imageset", "status", "edits", "needs"} |->
        CASE k = "imageset" -> imageset_name
          [] k = "status" -> "new"
          [] OTHER -> ""]

\* documents a sidecar can hold: strings under top-level keys, "table" for
\* a section
FileData ==
    {EmptyData,
     [k \in {"status"} |-> "keep"],
     [k \in {"imageset", "status", "edits", "needs", "source"} |->
        CASE k = "imageset" -> imageset_name
          [] k = "status" -> "edit"
          [] k = "source" -> "unknown"
          [] OTHER -> ""],
     [k \in {"status", "fooocus"} |->
        IF k = "status" THEN "new" ELSE "table"]}

\* no file at the path
NoFile == [bytes |-> "none", parses |-> {}, data |-> EmptyData]

\* tomli_w.dump: the file holds the data as UTF-8 text
Dumped(data) == [bytes |-> "utf-8", parses |-> {"utf-8"}, data |-> data]

\* the contents of a file: its bytes are valid UTF-8 or not ("8-bit"), and
\* the encodings under which the bytes decode to text that parses as TOML;
\* latin-1 and iso-8859-1 name one encoding, which decodes every byte
Contents ==
    {NoFile, [bytes |-> "utf-8", parses |-> {}, data |-> EmptyData],
     [bytes |-> "8-bit", parses |-> {}, data |-> EmptyData]}
      \cup {Dumped(d) : d \in FileData}
      \cup [bytes : {"8-bit"},
            parses : {{"latin-1", "iso-8859-1"}, {"cp1252"},
                      {"latin-1", "cp1252", "iso-8859-1"}},
            data : FileData]

\* ImagesetToml._ensure_required_keys: the data with the missing defaults
\* and the detected source
_ensure_required_keys(data) ==
    LET filled == [k \in DOMAIN data
                        \cup {"imageset", "status", "edits", "needs",
                              "source"} |->
                      IF k \in DOMAIN data THEN data[k]
                      ELSE CASE k = "imageset" -> imageset_name
                             [] k = "status" -> "new"
                             [] k = "source" -> "unknown"
                             [] OTHER -> ""]
        detected == IF "fooocus" \in DOMAIN filled THEN "fooocus"
                    ELSE IF "midjourney" \in DOMAIN filled THEN "midjourney"
                    ELSE ""
    IN  IF detected /= "" /\ filled["source"] = "unknown"
        THEN [filled EXCEPT !["source"] = detected]
        ELSE filled

Loaded(toml_file, backup_file, data, raised) ==
    [toml_file |-> toml_file, backup_file |-> backup_file, data |-> data,
     raised |-> raised]

\* ImagesetToml._validate_toml_file on the sidecar c with the backup file b;
\* nt: os.rename runs on Windows and refuses an existing destination
_validate_toml_file(c, b, nt) ==
    IF c.bytes = "none"
    THEN Loaded(Dumped(DefaultData), b, DefaultData, FALSE)
    ELSE IF c.bytes = "utf-8"
    THEN IF "utf-8" \in c.parses
         THEN LET data == _ensure_required_keys(c.data)
              IN  Loaded(IF data = c.data THEN c ELSE Dumped(data), b, data,
                         FALSE)
         ELSE \* tomllib.TOMLDecodeError is not a UnicodeDecodeError
              Loaded(c, b, EmptyData, TRUE)
    ELSE IF \E i \in 1..Len(encodings_to_try) :
                encodings_to_try[i] \in c.parses
    THEN LET data == _ensure_required_keys(c.data)
         IN  Loaded(Dumped(data), b, data, FALSE)
    ELSE IF nt /\ b.bytes /= "none"
    THEN Loaded(c, b, EmptyData, TRUE)
    ELSE Loaded(Dumped(DefaultData), c, DefaultData, FALSE)

\* ImagesetToml(imageset_folder) on the existing folder
LoadToml ==
    /\ \E r \in {_validate_toml_file(doc.toml_file, doc.backup_file,
                                     doc.nt)} :
           doc' = [toml_file |-> r.toml_file, backup_file |-> r.backup_file,
                   data |-> r.data, raised |-> r.raised, op |-> "load",
                   nt |-> doc.nt]
    /\ UNCHANGED <<loose, main, arch, objs, db, last, mirror>>
    /\ UNCHANGED <<parsed, registry, tables, held>>

\* another program writes or removes the sidecar
Overwrite(c) ==
    /\ c /= doc.toml_file
    /\ doc' = [doc EXCEPT !.toml_file = c, !.op = "overwrite",
                          !.raised = FALSE]
    /\ UNCHANGED <<loose, main, arch, objs, db, last, mirror>>
    /\ UNCHANGED <<parsed, registry, tables, held>>

InitLoad ==
    /\ loose = {}
    /\ main = [n \in DirNames |-> NoDir]
    /\ arch = [n \in DirNames |-> NoDir]
    /\ objs = [n \in DirNames |-> NoObj]
    /\ db = [n \in DirNames |-> NoRow]
    /\ last = NoLast
    /\ MirrorInit
    /\ parsed = <<>> /\ registry = NoRegistry /\ tables = NoTables
    /\ held = NoHeld
    /\ \E c \in Contents, nt \in BOOLEAN :
           doc = [toml_file |-> c, backup_file |-> NoFile,
                  data |-> EmptyData, raised |-> FALSE, op |-> "init",
                  nt |-> nt]

NextLoad ==
    \/ LoadToml
    \/ \E c \in Contents : Overwrite(c)

\* the sidecar of one folder, loaded and overwritten from outside
SpecLoad == InitLoad /\ [][NextLoad]_vars

\* no attempted encoding decodes the file to text that parses
Unreadable(c) == c.bytes /= "none" /\ c.parses = {}

\* C20: the load of a sidecar that no attempted encoding decodes and parses
\* does not raise; it renames the file to the backup and writes and holds
\* the defaults
C20_UnreadableBackedUp ==
    [][(doc'.op = "load" /\ Unreadable(doc.toml_file))
          => /\ ~doc'.raised
             /\ doc'.backup_file = doc.toml_file
             /\ doc'.toml_file = Dumped(DefaultData)
             /\ doc'.data = DefaultData]_vars

---------------------------------------------------------------------------
(* SearchService on the imagesets table                                    *)

\* the largest id the imagesets table hands out to the searched rows
MaxSearchRows == 2

\* a column value: NULL or a text; a text is the sequence of its comma
\* separated pieces, a status the sequence of its one word
SqlNull == [null |-> TRUE, text |-> <<>>]

Text(t) == [null |-> FALSE, text |-> t]

\* str.lower / LOWER(...)
LowerText(t) == [i \in DOMAIN t |-> Lower(t[i])]

\* str.strip / TRIM(...): blank pieces at both ends are dropped
RECURSIVE StripText(_)
StripText(t) ==
    IF t = <<>> THEN t
    ELSE IF t[1] = " " THEN StripText(Tail(t))
    ELSE IF t[Len(t)] = " " THEN StripText(SubSeq(t, 1, Len(t) - 1))
    ELSE t

\* LOWER(column) LIKE '%value%' for a value without LIKE wildcards; NULL
\* is not LIKE anything
Like(column, value) ==
    ~column.null /\ Contains(LowerText(column.text), value)

\* LOWER(column) = value
EqualsLower(column, value) ==
    ~column.null /\ LowerText(column.text) = value

\* TRIM(column) = '' ; not true of NULL
IsBlankText(column) == ~column.null /\ StripText(column.text) = <<>>

\* the database init_database creates: the imagesets table has no posted_to
\* column and no row
NoSearched ==
    [posted_to_column |-> FALSE, rows |-> {}, next |-> 1, found |-> {},
     call |-> [op |-> "init", ok |-> TRUE, status |-> <<>>,
               contains |-> <<>>, excludes |-> <<>>, any |-> FALSE]]

Called(op, ok, status, contains, excludes, any) ==
    [op |-> op, ok |-> ok, status |-> status, contains |-> contains,
     excludes |-> excludes, any |-> any]

\* SearchService._run_query: the ids of the rows the WHERE clause selects;
\* _BASE_SELECT names imagesets.posted_to, and a query that fails returns []
_run_query(t, selected) ==
    IF t.posted_to_column THEN selected ELSE {}

\* the WHERE clause of search_status_good_for_posted_to
StatusGoodForPostedToClause(rows, status_value, good_for_value, exclude_value) ==
    {r.id : r \in
        {r \in rows :
            /\ EqualsLower(r.status, status_value)
            /\ ~r.good_for.null
            /\ Like(r.good_for, good_for_value)
            /\ \/ r.posted_to.null
               \/ IsBlankText(r.posted_to)
               \/ ~Like(r.posted_to, exclude_value)}}

search_status_good_for_posted_to(t, status, good_for_contains, posted_to_excludes) ==
    LET status_value   == LowerText(StripText(status))
        good_for_value == LowerText(StripText(good_for_contains))
        exclude_value  == LowerText(StripText(posted_to_excludes))
    IN  IF status_value = <<>> \/ good_for_value = <<>>
             \/ exclude_value = <<>>
        THEN {}
        ELSE _run_query(t, StatusGoodForPostedToClause(
                               t.rows, status_value, good_for_value,
                               exclude_value))

\* the WHERE clause of search_status_and_needs
StatusAndNeedsClause(rows, status_value, needs_value, any) ==
    {r.id : r \in
        {r \in rows :
            /\ EqualsLower(r.status, status_value)
            /\ IF any
               THEN ~r.needs.null /\ ~IsBlankText(r.needs)
               ELSE Like(r.needs, needs_value)}}

\* none: no needs text is given (None)
search_status_and_needs(t, status, needs_contains, none) ==
    LET status_value == LowerText(StripText(status))
        any          == none \/ StripText(needs_contains) = <<>>
    IN  IF status_value = <<>> THEN {}
        ELSE _run_query(t, StatusAndNeedsClause(
                               t.rows, status_value,
                               LowerText(StripText(needs_contains)), any))

\* the column values rows are created with
Samples ==
    {[status |-> Text(<<"Keep">>), needs |-> Text(<<"Orig", "thumbnail">>),
      good_for |-> Text(<<"Stock", "poster">>)],
     [status |-> Text(<<"edit">>), needs |-> Text(<<>>),
      good_for |-> Text(<<"stock">>)],
     [status |-> Text(<<"keep">>), needs |-> SqlNull, good_for |-> SqlNull],
     [status |-> SqlNull, needs |-> Text(<<"orig">>),
      good_for |-> Text(<<"stock">>)]}

\* values given to update_field and texts given to the searches
PostedToValues == {<<" ">>, <<"etsy", "rb">>}

StatusTexts == {<<>>, <<" ", "Keep">>, <<"edit">>}

GoodForTexts == {<<" ">>, <<"stock">>}

PostedToTexts == {<<>>, <<"rb">>}

NeedsTexts == {<<" ">>, <<"orig">>}

\* ImagesetsTable.create: a new row; create has no posted_to parameter, the
\* column, where the table has it, is NULL
ImagesetsCreate(status, needs, good_for) ==
    /\ tables.next <= MaxSearchRows
    /\ tables' = [tables EXCEPT
           !.rows = @ \cup {[id |-> tables.next, status |-> status,
                             needs |-> needs, good_for |-> good_for,
                             posted_to |-> SqlNull]},
           !.next = @ + 1,
           !.found = {},
           !.call = Called("create", TRUE, <<>>, <<>>, <<>>, FALSE)]
    /\ UNCHANGED <<loose, main, arch, objs, db, last, mirror>>
    /\ UNCHANGED <<parsed, doc, registry, held>>

\* scripts/migrate_posted_to.py, ensure_posted_to_column: ALTER TABLE
\* imagesets ADD COLUMN posted_to
EnsurePostedToColumn ==
    /\ tables' = [tables EXCEPT
           !.posted_to_column = TRUE,
           !.found = {},
           !.call = Called("ensure_posted_to_column", TRUE, <<>>, <<>>,
                           <<>>, FALSE)]
    /\ UNCHANGED <<loose, main, arch, objs, db, last, mirror>>
    /\ UNCHANGED <<parsed, doc, registry, held>>

\* ImagesetsTable.update_field(imageset_id, "posted_to", value): fails on a
\* table without the column
UpdatePostedTo(imageset_id, value) ==
    /\ \E r \in tables.rows : r.id = imageset_id
    /\ tables' = [tables EXCEPT
           !.rows = IF tables.posted_to_column
                    THEN {IF r.id = imageset_id
                          THEN [r EXCEPT !.posted_to = Text(value)]
                          ELSE r : r \in tables.rows}
                    ELSE @,
           !.found = {},
           !.call = Called("update_field", tables.posted_to_column, <<>>,
                           <<>>, <<>>, FALSE)]
    /\ UNCHANGED <<loose, main, arch, objs, db, last, mirror>>
    /\ UNCHANGED <<parsed, doc, registry, held>>

SearchStatusGoodForPostedTo(status, good_for_contains, posted_to_excludes) ==
    /\ \E found \in {search_status_good_for_posted_to(
                         tables, status, good_for_contains,
                         posted_to_excludes)} :
           tables' = [tables EXCEPT
               !.found = found,
               !.call = Called("search_status_good_for_posted_to", TRUE,
                               status, good_for_contains,
                               posted_to_excludes, FALSE)]
    /\ UNCHANGED <<loose, main, arch, objs, db, last, mirror>>
    /\ UNCHANGED <<parsed, doc, registry, held>>

SearchStatusAndNeeds(status, needs_contains, none) ==
    /\ none => needs_contains = <<>>
    /\ \E found \in {search_status_and_needs(tables, status, needs_contains,
                                             none)} :
           tables' = [tables EXCEPT
               !.found = found,
               !.call = Called("search_status_and_needs", TRUE, status,
                               needs_contains, <<>>, none)]
    /\ UNCHANGED <<loose, main, arch, objs, db, last, mirror>>
    /\ UNCHANGED <<parsed, doc, registry, held>>

InitSearch ==
    /\ loose = {}
    /\ main = [n \in DirNames |-> NoDir]
    /\ arch = [n \in DirNames |-> NoDir]
    /\ objs = [n \in DirNames |-> NoObj]
    /\ db = [n \in DirNames |-> NoRow]
    /\ last = NoLast
    /\ MirrorInit
    /\ parsed = <<>> /\ doc = NoDoc /\ registry = NoRegistry
    /\ held = NoHeld
    /\ tables = NoSearched

NextSearch ==
    \/ \E row \in Samples :
           ImagesetsCreate(row.status, row.needs, row.good_for)
    \/ EnsurePostedToColumn
    \/ \E id \in 1..MaxSearchRows, value \in PostedToValues :
           UpdatePostedTo(id, value)
    \/ \E status \in StatusTexts, g \in GoodForTexts, p \in PostedToTexts :
           SearchStatusGoodForPostedTo(status, g, p)
    \/ \E status \in StatusTexts, needs \in NeedsTexts, none \in BOOLEAN :
           SearchStatusAndNeeds(status, needs, none)

\* rows created, the posted_to migration, and the two searches
SpecSearch == InitSearch /\ [][NextSearch]_vars

\* the text a search uses for a filter: trimmed and in lower case
Filter(t) == LowerText(StripText(t))

\* C21: a search by status, good_for and posted_to with three non-blank
\* filters finds exactly the rows whose status is the given one ignoring
\* case, whose good_for is not NULL and contains g, and whose posted_to is
\* NULL, blank or does not contain p
C21_SearchGoodForPostedTo ==
    (/\ tables.call.op = "search_status_good_for_posted_to"
     /\ Filter(tables.call.status) /= <<>>
     /\ Filter(tables.call.contains) /= <<>>
     /\ Filter(tables.call.excludes) /= <<>>)
    => tables.found =
         {r.id : r \in
            {r \in tables.rows :
               /\ ~r.status.null
               /\ LowerText(r.status.text) = Filter(tables.call.status)
               /\ ~r.good_for.null
               /\ Contains(LowerText(r.good_for.text),
                           Filter(tables.call.contains))
               /\ \/ r.posted_to.null
                  \/ StripText(r.posted_to.text) = <<>>
                  \/ ~Contains(LowerText(r.posted_to.text),
                               Filter(tables.call.excludes))}}

\* C22: a search by status and needs finds exactly the rows with the status
\* whose needs contains the given text, and without a needs text exactly
\* the rows with the status whose needs is not NULL and not blank
C22_SearchStatusAndNeeds ==
    (/\ tables.call.op = "search_status_and_needs"
     /\ Filter(tables.call.status) /= <<>>)
    => tables.found =
         {r.id : r \in
            {r \in tables.rows :
               /\ ~r.status.null
               /\ LowerText(r.status.text) = Filter(tables.call.status)
               /\ ~r.needs.null
               /\ IF tables.call.any \/ Filter(tables.call.contains) = <<>>
                  THEN StripText(r.needs.text) /= <<>>
                  ELSE Contains(LowerText(r.needs.text),
                                Filter(tables.call.contains))}}

---------------------------------------------------------------------------
(* Moving an imageset folder                                               *)

\* the folders move_to_folder is called with: F, F/_archive, and a path
\* that does not exist
FolderPathsToMoveTo == {"F", "F/_archive", "G"}

\* the imageset folders under a folder path
FoldersIn(fs, folder_path) == IF folder_path = "F" THEN fs.main ELSE fs.arch

\* where <folder_path>/<name> lies
LocOf(folder_path) == IF folder_path = "F" THEN "main" ELSE "arch"

Moved(raised, fs, loc, folder_name) ==
    [raised |-> raised, fs |-> fs, loc |-> loc, folder_name |-> folder_name]

\* a move that renames onto an existing target
move_to_folder_overwriting(fs, loc, folder_name, name, new_folder_path) ==
    IF new_folder_path = "G" THEN Moved(TRUE, fs, loc, folder_name)
    ELSE Moved(FALSE,
               SetDirAt(SetDirAt(fs, loc, name, NoDir), LocOf(new_folder_path),
                        name, DirAt(fs, loc, name)),
               LocOf(new_folder_path), new_folder_path)

\* Imageset.move_to_folder(new_folder_path) on an object bound to the folder
\* at loc: a missing target folder and a taken target path raise before
\* anything moves; F and F/_archive exist
move_to_folder(fs, loc, folder_name, name, new_folder_path) ==
    IF new_folder_path = "G" THEN Moved(TRUE, fs, loc, folder_name)
    ELSE IF FoldersIn(fs, new_folder_path)[name].exists
    THEN Moved(TRUE, fs, loc, folder_name)
    ELSE LET t == ImagesetTomlInit(DirAt(fs, loc, name))
         IN  Moved(t.raised,
                   SetDirAt(SetDirAt(fs, loc, name, NoDir),
                            LocOf(new_folder_path), name, t.dir),
                   LocOf(new_folder_path), new_folder_path)

\* an Imageset object with the folder it was given and the folder it is
\* bound to
Bound(live, loc, folder_name) ==
    [live |-> live, imageset_folder |-> loc, folder_name |-> folder_name]

\* Imageset(config, F, name)
NewImageset(name) ==
    /\ \E c \in {ImagesetInit(FS, name)} :
           /\ SetFS(c.fs)
           /\ held' = Bound(~c.raised, c.loc, "F")
           /\ last' = Last("new", name, "", "", <<>>, c.raised, FALSE,
                           PreOf(name, "main"), NoScan)
    /\ UNCHANGED <<objs, db, mirror>>
    /\ UNCHANGED <<parsed, doc, registry, tables>>

\* imageset.archive_imageset() on an object that was given the folder F
ArchiveImageset(name) ==
    /\ held.live
    /\ held.folder_name = "F"
    /\ \E a \in {archive_imageset(FS, held.imageset_folder, name)} :
           /\ SetFS(a.fs)
           /\ held' = Bound(TRUE, a.loc, held.folder_name)
           /\ last' = Last("archive_imageset", name, "F/_archive", "", <<>>,
                           a.raised, FALSE,
                           PreOf(name, held.imageset_folder), NoScan)
    /\ UNCHANGED <<objs, db, mirror>>
    /\ UNCHANGED <<parsed, doc, registry, tables>>

\* imageset.move_to_folder(new_folder_path)
MoveToFolder(name, new_folder_path) ==
    /\ held.live
    /\ \E m \in {move_to_folder(FS, held.imageset_folder, held.folder_name,
                                name, new_folder_path)} :
           /\ SetFS(m.fs)
           /\ held' = Bound(TRUE, m.loc, m.folder_name)
           /\ last' = Last("move_to_folder", name, new_folder_path, "",
                           <<>>, m.raised, FALSE,
                           PreOf(name, held.imageset_folder), NoScan)
    /\ UNCHANGED <<objs, db, mirror>>
    /\ UNCHANGED <<parsed, doc, registry, tables>>

\* a later scan of F makes the imageset folder F/<name> again for a new
\* loose image
NewFolder(name) ==
    /\ ~main[name].exists
    /\ main' = [main EXCEPT ![name] = NewDir({cat_png}, NoToml)]
    /\ last' = Last("new_folder", name, "", "", <<>>, FALSE, FALSE, NoPre,
                    NoScan)
    /\ UNCHANGED <<loose, arch, objs, db, mirror, held>>
    /\ UNCHANGED <<parsed, doc, registry, tables>>

\* the imageset folder F/cat with one or two images; F/_archive/cat may be
\* taken by a folder archived earlier
InitMove ==
    /\ loose = {}
    /\ \E files \in {{cat_png}, {cat_orig_png, cat_v2_png}},
          t \in {NoToml, DefaultToml, [DefaultToml EXCEPT !.status = "keep"]} :
           main = [n \in DirNames |-> IF n = cat THEN NewDir(files, t)
                                      ELSE NoDir]
    /\ \E occ \in {NoDir, Occupant} :
           arch = [n \in DirNames |-> IF n = cat THEN occ ELSE NoDir]
    /\ objs = [n \in DirNames |-> NoObj]
    /\ db = [n \in DirNames |-> NoRow]
    /\ last = NoLast
    /\ MirrorInit
    /\ parsed = <<>> /\ doc = NoDoc /\ registry = NoRegistry
    /\ tables = NoTables
    /\ held = Bound(FALSE, "main", "F")

NextMove ==
    \/ NewImageset(cat)
    \/ ArchiveImageset(cat)
    \/ \E new_folder_path \in FolderPathsToMoveTo :
           MoveToFolder(cat, new_folder_path)
    \/ NewFolder(cat)
    \/ \E f \in {cat_v2_png} : PutFile(cat, f, MaxFiles)
    \/ \E f \in {cat_v2_png} : RemoveFile(cat, f)

\* an Imageset object that is archived and moved between F and F/_archive
SpecMove == InitMove /\ [][NextMove]_vars

\* C23: archive_imageset and move_to_folder on a target path that exists
\* raise; every folder with its files and its sidecar stays where it was,
\* and the object keeps its imageset_folder, its folder_name and its sidecar
C23_ConflictMovesNothing ==
    [][(/\ last'.op \in {"archive_imageset", "move_to_folder"}
        /\ last'.field /= "G"
        /\ FoldersIn(FS, last'.field)[last'.name].exists)
          => /\ last'.raised
             /\ main' = main
             /\ arch' = arch
             /\ loose' = loose
             /\ held' = held]_vars

\* reached: a move to F/_archive was refused because F/_archive/cat is
\* taken, with the imageset still in F
C23_Witness ==
    /\ last.op = "move_to_folder"
    /\ last.field = "F/_archive"
    /\ last.raised
    /\ held.imageset_folder = "main"
    /\ held.folder_name = "F"
    /\ main[cat].exists
    /\ arch[cat] = Occupant

---------------------------------------------------------------------------
(* What a folder scan leaves alone                                         *)

\* the entries of F the listing of folder_scan skips
Skipped == {f \in loose : ~Visible(f)}

\* the loose files of F that are not images
NonImages == {f \in loose : ~is_image_file(f)}

\* C25: a scan leaves every entry of F whose name starts with "_" or with
\* "index." where it is: it is still directly in F after the scan, it is in
\* no imageset folder, and no imageset is made of it
C25_SkippedEntriesUntouched ==
    [][Scanned'
         => /\ Skipped \subseteq loose'
            /\ \A n \in DirNames :
                   /\ main'[n].files \cap Skipped \subseteq main[n].files
                   /\ arch'[n].files \cap Skipped \subseteq arch[n].files
            /\ \A n \in last'.scan.imagesets : Visible(n)]_vars

\* C26: after a scan every file of F that is not an image is still
\* directly in F
C26_NonImagesStay ==
    [][Scanned' => NonImages \subseteq loose']_vars

---------------------------------------------------------------------------
(* The imagesets row against the properties of the Imageset                *)

\* what the getters of an Imageset on F/<name> return: status, edits, needs
\* and good_for are top-level keys, posted_to is a key of the [biz] section
Getters(name) ==
    [status    |-> main[name].toml.status,
     edits     |-> main[name].toml.edits,
     needs     |-> main[name].toml.needs,
     good_for  |-> main[name].toml.good_for,
     posted_to |-> main[name].toml.posted_to]

\* C27: after sync_imageset_toml_to_db the row holds, in status, edits,
\* needs, good_for and posted_to, the values the getters of the Imageset
\* return for the sidecar
C27_RowEqualsGetters ==
    Synced =>
        /\ db[cat].present
        /\ db[cat].status = Getters(cat).status
        /\ db[cat].edits = Getters(cat).edits
        /\ db[cat].needs = Getters(cat).needs
        /\ db[cat].good_for = Getters(cat).good_for
        /\ "posted_to" \in DOMAIN db[cat]
        /\ db[cat].posted_to = Getters(cat).posted_to

---------------------------------------------------------------------------
(* The sidecar after the database was copied onto it                       *)

\* sync_imageset_db_to_toml has returned True
CopiedBack == last.op = "db_to_toml" /\ ~last.raised

\* C28: after sync_imageset_db_to_toml for an imageset with a row, the
\* sidecar's status, edits and needs are those of the row, an empty value
\* of the row included
C28_SidecarEqualsRow ==
    CopiedBack =>
        /\ db[cat].present
        /\ main[cat].toml.status = db[cat].status
        /\ main[cat].toml.edits = db[cat].edits
        /\ main[cat].toml.needs = db[cat].needs

---------------------------------------------------------------------------
(* The three tag detectors on one file name                                *)

\* the tags Imageset._get_imageset_files records for a file name: the tags
\* of the vocabulary that occur as "_<tag>_" or "_<tag>."
_get_imageset_files_tags(file_name, file_tags) ==
    SelectSeq(file_tags, LAMBDA tag : HasTag(file_name, tag))

\* the tags the tag loop of sync_imageset_toml_to_db extracts from the
\* filename of a file row and gives to set_tags_for_file
sync_tags(filename, file_tags) ==
    SelectSeq(file_tags,
              LAMBDA tag : \/ Contains(filename, <<"_", tag, "_">>)
                           \/ Contains(filename, <<"_", tag, ".">>))

\* the three detectors on one file name with one vocabulary
DetectTags(file_name, file_tags) ==
    /\ parsed' = <<[file_name |-> file_name, file_tags |-> file_tags,
                    grouping  |-> get_imageset_from_filename(
                                      file_name, file_tags).tags,
                    loaded    |-> _get_imageset_files_tags(file_name,
                                                           file_tags),
                    synced    |-> sync_tags(file_name, file_tags)]>>
    /\ UNCHANGED <<loose, main, arch, objs, db, last, mirror>>
    /\ UNCHANGED <<doc, registry, tables, held>>

NextTags ==
    \E file_name \in ParseNames, file_tags \in Vocabularies :
        DetectTags(file_name, file_tags)

\* the tags of file names, detected again and again
SpecTags == InitParse /\ [][NextTags]_vars

\* C29: for a file name and a vocabulary, the tags get_imageset_from_filename
\* returns, the tags the files dict of the Imageset records and the tags the
\* sync writes are the same set
C29_DetectorsAgree ==
    parsed /= <<>> =>
        /\ SeqSet(parsed[1].grouping) = SeqSet(parsed[1].loaded)
        /\ SeqSet(parsed[1].loaded) = SeqSet(parsed[1].synced)

---------------------------------------------------------------------------
(* Keys of the sidecar that are equal ignoring case                        *)

\* the keys of a table in their order
Keys(items) == [i \in DOMAIN items |-> items[i].key]

\* no two keys of the table are equal ignoring case
CaseUnique(items) ==
    \A i, j \in 1..Len(items) :
        Lower(items[i].key) = Lower(items[j].key) => i = j

\* no two top-level keys and no two keys of one section are equal ignoring
\* case
CaseUniqueDoc(data) ==
    /\ CaseUnique(data)
    /\ \A i \in 1..Len(data) :
           data[i].value.t = "table" => CaseUnique(data[i].value.items)

\* C30: a set on a document without keys that are equal ignoring case
\* leaves such a document, and an accepted set on a name the document holds
\* in some casing adds no key: the keys of the document, and of the section
\* when the key is found in it, are the ones before the set
C30_CaseUniquenessKept ==
    [][(/\ doc'.wrote /= <<>>
        /\ doc'.read = <<>>
        /\ CaseUniqueDoc(doc.data))
          => /\ CaseUniqueDoc(doc'.data)
             /\ \A i \in {_find_key_case_insensitive(
                              doc.data,
                              IF doc'.wrote[1].section /= ""
                              THEN doc'.wrote[1].section
                              ELSE doc'.wrote[1].key)} :
                    (~doc'.wrote[1].raised /\ i /= 0)
                      => /\ Keys(doc'.data) = Keys(doc.data)
                         /\ (/\ doc'.wrote[1].section /= ""
                             /\ doc'.wrote[1].key /= ""
                             /\ _find_key_case_insensitive(
                                    doc.data[i].value.items,
                                    doc'.wrote[1].key) /= 0)
                              => Keys(doc'.data[i].value.items)
                                   = Keys(doc.data[i].value.items)]_vars

====
